---- MODULE Spec2Model ----
(***************************************************************************)
(* The RLM agent of ax-ralph-rlm: the step engine (rlm_agent.ts), the      *)
(* host side of the sandbox session (rlm_runtime.ts), the worker script    *)
(* (rlm_worker_script.ts) and the sub-query dispatcher (llmQuery).         *)
(*                                                                         *)
(* One step of the model is one task of the JavaScript event loop on the   *)
(* host or in a worker, run to quiescence (the microtasks it queues are    *)
(* part of it).  Messages between host and worker travel in FIFO queues.  *)
(***************************************************************************)
EXTENDS Integers, Sequences, FiniteSets, TLC

\* ------------------------------------------------------------------ bounds
MaxSteps == 2       \* config.maxSteps of the modelled invocation
MaxCeiling == 3     \* largest config.rlm.maxLlmCalls tried
MaxBatch == 3       \* most items in one batched llmQuery
MaxConc == 2        \* largest config.rlm.maxBatchedLlmQueryConcurrency tried
AnswerLen == 12     \* characters in a model answer to a sub-query
DocLen == 2500      \* characters in the preloaded document
MaxExecutes == 3    \* execute() calls a direct caller of a session makes
MaxIters == 2       \* largest maxIters of a generation loop, and iteration numbers stored
MaxTokens == 2      \* largest token total the provider reports for a reply
MaxSessions == 2    \* session ids in the trace store
MaxStores == 3      \* storeIterTrace calls on the trace store
MaxAppends == 4     \* appendToMemory calls on the memory file

\* ------------------------------------------------------- program constants
MaxRuntimeChars == 2000   \* rlm.maxRuntimeChars
RestartMsgLen == 98       \* RESTART_MSG.length
ExhaustedMsgLen == 113    \* the budget-exhausted marker with one-digit ceiling
WarningLen == 54          \* "\n[WARNING] c/N sub-queries used. ..." with one-digit c, N
TruncSuffixLen == 22      \* "\n...[truncated " + " chars]"
NoOutputLen == 11         \* "(no output)"
DefaultMaxSteps == 80     \* getEnvInt("WORKER_MAX_STEPS", 80)
DefaultMaxLlmCalls == 60  \* getEnvInt("WORKER_MAX_LLM_CALLS", 60)
MinMaxSteps == 2          \* Math.max(..., 2)
WorkerConcurrency == 6    \* maxBatchedLlmQueryConcurrency of the worker agent
MinBullets == 3           \* hardValidate: bullets.length < 3
MaxBullets == 7           \* hardValidate: bullets.length > 7
MinQuotes == 3            \* hardValidate: ev.length < 3
MaxQuotes == 8            \* hardValidate: ev.length > 8
MaxQuoteLen == 160        \* hardValidate: quote.length > 160
MemoryBudget == 1500      \* MEMORY_BUDGET_CHARS
PrefixReserve == 30       \* prefixReserve of trimMemory
TimestampLen == 24        \* new Date().toISOString().length

\* ------------------------------------------------------------------ strings
\* A string is a sequence of segments; a segment is a named piece of text of a
\* known length.  Pieces that carry data have extra fields.
Seg(tok, len) == [tok |-> tok, len |-> len]
Str(tok, len) == <<Seg(tok, len)>>
EmptyStr == <<>>

RECURSIVE StrLen(_)
StrLen(s) == IF s = <<>> THEN 0 ELSE Head(s).len + StrLen(Tail(s))

RECURSIVE Digits(_)
Digits(n) == IF n < 10 THEN 1 ELSE 1 + Digits(n \div 10)

\* s.slice(0, k): whole segments while they fit, then the cut part of the next
RECURSIVE Slice(_, _)
Slice(s, k) ==
  IF s = <<>> \/ k <= 0 THEN <<>>
  ELSE IF Head(s).len <= k THEN <<Head(s)>> \o Slice(Tail(s), k - Head(s).len)
  ELSE <<[tok |-> "cut", len |-> k, of |-> Head(s).tok]>>

truncate(s, maxChars) ==
  IF StrLen(s) <= maxChars THEN s
  ELSE Slice(s, maxChars) \o
       <<[tok |-> "truncated", len |-> TruncSuffixLen + Digits(StrLen(s) - maxChars),
          dropped |-> StrLen(s) - maxChars]>>

RESTART_MSG == Str("RESTART_MSG", RestartMsgLen)
NL == Str("\\n", 1)
NoOutput == Str("(no output)", NoOutputLen)
ErrorPrefix == Str("Error: ", 7)
TimedOutMsg == Str("Execution timed out", 19)
ClosedMsg == Str("Session is closed", 17)
ChatFailedMsg == Str("chat failed", 11)

StartsWith(s, p) == Len(s) >= Len(p) /\ SubSeq(s, 1, Len(p)) = p

\* --------------------------------------------------------------- JS values
Undef == [t |-> "undef"]
NumV(n) == [t |-> "num", num |-> n]
StrV(s) == [t |-> "str", str |-> s]
ArrV(a) == [t |-> "arr", arr |-> a]      \* an array of strings
BoolV(b) == [t |-> "bool", b |-> b]

RECURSIVE SumLen(_)
SumLen(a) == IF a = <<>> THEN 0 ELSE StrLen(Head(a)) + SumLen(Tail(a))

\* JSON.stringify(value, null, 2) of a number or of an array of strings
JsonLen(v) ==
  IF v.t = "num" THEN Digits(v.num)
  ELSE IF v.arr = <<>> THEN 2
  ELSE SumLen(v.arr) + 6 * Len(v.arr) + 2

formatValue(value) ==
  IF value.t = "undef" THEN NoOutput
  ELSE IF value.t = "str" THEN (IF value.str = EmptyStr THEN NoOutput ELSE value.str)
  ELSE <<[tok |-> "json", len |-> JsonLen(value), val |-> value]>>

\* ------------------------------------------------------------ configuration
\* RLMAgentConfig: the fields the engine and the dispatcher read
Configs ==
  [maxSteps : {MaxSteps}, maxLlmCalls : 1..MaxCeiling,
   maxBatchedLlmQueryConcurrency : 1..MaxConc, maxRuntimeChars : {MaxRuntimeChars}]

\* The environment: the value of WORKER_MAX_STEPS and WORKER_MAX_LLM_CALLS,
\* 0 for a variable that is unset or is not a positive integer.
\* getEnvInt of env.ts
getEnvInt(raw, fallback) == IF raw <= 0 THEN fallback ELSE raw

\* resolveWorkerBudgets of env.ts
resolveWorkerBudgets(e) ==
  LET got == getEnvInt(e.WORKER_MAX_STEPS, DefaultMaxSteps)
      maxSteps == IF got > MinMaxSteps THEN got ELSE MinMaxSteps
      requestedMaxLlmCalls == getEnvInt(e.WORKER_MAX_LLM_CALLS, DefaultMaxLlmCalls)
  IN [maxSteps |-> maxSteps,
      maxLlmCalls |-> IF requestedMaxLlmCalls < maxSteps - 1 THEN requestedMaxLlmCalls
                      ELSE maxSteps - 1]

\* makeWorkerAgent of worker.ts: the config it hands to rlmAgentForward
WorkerConfig(e) ==
  LET budgets == resolveWorkerBudgets(e) IN
  [maxSteps |-> budgets.maxSteps, maxLlmCalls |-> budgets.maxLlmCalls,
   maxBatchedLlmQueryConcurrency |-> WorkerConcurrency, maxRuntimeChars |-> MaxRuntimeChars]

\* the environments tried: WORKER_MAX_STEPS set to 1..MaxSteps
Envs == [WORKER_MAX_STEPS : 1..MaxSteps, WORKER_MAX_LLM_CALLS : 0..1]

\* ------------------------------------------------------- submitted fragments
\* The code a model turn submits, by what it does when the worker runs it:
\*   bind  - binds x to val: "var x = val", "let x = val" or "x = val"
\*   read  - the expression "x"
\*   dump  - the expression "context" (the preloaded document)
\*   query - "await llmQuery(q)" (batch = FALSE) or "await llmQuery([n items])"
\* async = the text contains the word await (the worker's async path).
Code(op, decl, async, val, batch, n) ==
  [op |-> op, decl |-> decl, async |-> async, val |-> val, batch |-> batch, n |-> n]
BindCodes == {Code("bind", d, a, v, FALSE, 0) : d \in {"var", "let", "bare"}, a \in BOOLEAN, v \in 1..2}
ReadCodes == {Code("read", "none", a, 0, FALSE, 0) : a \in BOOLEAN}
QueryCodes == {Code("query", "none", TRUE, 0, FALSE, 1)} \cup
              {Code("query", "none", TRUE, 0, TRUE, n) : n \in 0..MaxBatch}
DumpCodes == {Code("dump", "none", FALSE, 0, FALSE, 0)}
\* llmQuery calls that pass a context of val characters with each query: as
\* long as the ceiling allows, or the whole document
CtxCodes == {Code("query", "none", TRUE, len, b, IF b THEN 2 ELSE 1) :
               len \in {MaxRuntimeChars, DocLen}, b \in BOOLEAN}

\* "await new Promise(() => {})": a fragment that never completes
HangCodes == {Code("hang", "none", TRUE, 0, FALSE, 0)}

\* "setTimeout(() => { throw new Error('late') }, 0)" and then the same: the
\* error is thrown in the worker outside of any execution
LateCodes == {Code("late", "none", TRUE, 0, FALSE, 0)}

\* Fragments that assign to a name the host preloaded, by their text:
\*   lead  - "start": the assignment opens a statement ("context = 7",
\*           "var context = 7"); "nested": it does not ("if (1) context = 7")
\*   decl  - "var" or "bare"
\*   opr   - "=" or "+=" (a compound assignment appends "!")
\* and the fragment '"use strict"; x = 1'.
AssignCode(name, lead, decl, opr) ==
  [op |-> "assign", decl |-> decl, async |-> FALSE, val |-> 7, batch |-> FALSE, n |-> 0,
   name |-> name, lead |-> lead, opr |-> opr]
AssignCodes ==
  {AssignCode(nm, l, d, "=") : nm \in {"context", "llmQuery"}, l \in {"start", "nested"}, d \in {"var", "bare"}}
  \cup {AssignCode("context", "start", "bare", "+=")}
StrictCodes == {Code("strict", "bare", FALSE, 1, FALSE, 0)}

\* The expression "" and the statement throw new Error("boom")
EmptyCodes == {Code("empty", "none", FALSE, 0, FALSE, 0)}
ThrowCodes == {Code("throw", "none", FALSE, 0, FALSE, 0)}
\* a fragment that prints nothing and whose value is undefined: "var x = 1"
SilentCodes == {Code("bind", "var", FALSE, 1, FALSE, 0)}
Codes == BindCodes \cup ReadCodes \cup QueryCodes \cup DumpCodes

\* Fragments that make capability calls and go on after them:
\*   par  - "await Promise.all([llmQuery(1), llmQuery(2)])"; with decl =
\*          "catch" each call has .catch(e => "caught: " + e.message)
\*   raw  - two lines: "self.postMessage({ type: 'fn-call', id: val,
\*          name: 'nope', args: [] })" and "await llmQuery(q)"
\*   logq - two lines: "await llmQuery(q)" and "console.log(val)"
ParCodes == {Code("par", d, TRUE, 0, FALSE, 2) : d \in {"none", "catch"}}
RawCodes == {Code("raw", "none", TRUE, v, FALSE, 1) : v \in 0..1}
LogCodes == {Code("logq", "none", TRUE, v, FALSE, 1) : v \in 1..2}

\* the { query } pairs a query fragment passes to llmQuery
Items(code) ==
  [i \in 1..code.n |-> [query |-> IF code.batch THEN 10 * code.n + i ELSE 0,
                        context |-> IF code.val = 0 THEN EmptyStr ELSE Str("ctx", code.val)]]

\* -------------------------------------------------------------------- worker
\* rlm_worker_script.ts: globalThis, _fnCallId, _fnPending and the executions
\* suspended in an await of a capability call.
FnStub == [t |-> "fn"]
DocV == StrV(Str("doc", DocLen))
\* console is the execution whose pushOutput console.log is bound to, print
\* the one globalThis.print is bound to; 0 is the worker's own console.log
\* and no print.  A suspended execution is
\*   [exec, code, fids - the ids of the calls it made, vals - what they
\*    settled with so far, out - its captured output, orig - origLog]
FreshWorker ==
  [alive |-> TRUE, globals |-> [context |-> Undef, llmQuery |-> Undef, x |-> Undef],
   fnCallId |-> 0, fnPending |-> {}, running |-> {}, console |-> 0, print |-> 0]
Unset == [t |-> "unset"]

\* init: globals and capability stubs go onto globalThis
WorkerOnInit(wkr, msg) ==
  [wkr EXCEPT !.globals.context = msg.globals, !.globals.llmQuery = FnStub]

ReferenceError == Str("ReferenceError: x is not defined", 32)
BoomMsg == Str("boom", 4)

\* String(v) of a string, a number or undefined
ToStr(v) ==
  IF v.t = "str" THEN v.str
  ELSE IF v.t = "num" THEN <<[tok |-> "digits", len |-> Digits(v.num), num |-> v.num]>>
  ELSE Str("undefined", 9)

\* an assignment to a preloaded name that is run: "=" stores the number,
\* "+=" stores the old value with "!" appended; a var declaration local to a
\* function leaves globalThis alone
EvalAssign(globals, code, local) ==
  LET v == IF code.opr = "=" THEN NumV(code.val)
           ELSE StrV(ToStr(globals[code.name]) \o Str("!", 1))
  IN [globals |-> IF local THEN globals ELSE [globals EXCEPT ![code.name] = v],
      result |-> IF code.decl = "var" THEN Undef ELSE v]

\* the sync path, (0, eval)(code): var and bare assignment bind on globalThis,
\* let is scoped to the eval
EvalSync(globals, code) ==
  IF code.op = "assign" THEN EvalAssign(globals, code, FALSE)
  ELSE IF code.op = "empty" THEN [globals |-> globals, result |-> StrV(EmptyStr)]
  ELSE IF code.op = "strict" THEN [globals |-> [globals EXCEPT !.x = NumV(code.val)],
                                   result |-> NumV(code.val)]
  ELSE IF code.op = "bind" THEN
    IF code.decl = "let" THEN [globals |-> globals, result |-> Undef]
    ELSE [globals |-> [globals EXCEPT !.x = NumV(code.val)],
          result |-> IF code.decl = "bare" THEN NumV(code.val) ELSE Undef]
  ELSE IF code.op = "dump" THEN [globals |-> globals, result |-> globals.context]
  ELSE IF globals.x = Undef THEN [globals |-> globals, result |-> StrV(ReferenceError)]
  ELSE [globals |-> globals, result |-> globals.x]

\* the async path, new AsyncFunction(code)(): var and let are local to the
\* function, only a bare assignment reaches globalThis
EvalAsync(globals, code) ==
  IF code.op = "assign" THEN EvalAssign(globals, code, code.decl = "var")
  ELSE IF code.op = "strict" THEN [globals |-> [globals EXCEPT !.x = NumV(code.val)],
                                   result |-> NumV(code.val)]
  ELSE IF code.op = "bind" THEN
    IF code.decl = "bare"
    THEN [globals |-> [globals EXCEPT !.x = NumV(code.val)], result |-> NumV(code.val)]
    ELSE [globals |-> globals, result |-> Undef]
  ELSE IF code.op = "dump" THEN [globals |-> globals, result |-> globals.context]
  ELSE IF globals.x = Undef THEN [globals |-> globals, result |-> StrV(ReferenceError)]
  ELSE [globals |-> globals, result |-> globals.x]

ResultMsg(id, value) == [type |-> "result", id |-> id, ok |-> TRUE, value |-> value, error |-> EmptyStr]
ResultErr(id, error) == [type |-> "result", id |-> id, ok |-> FALSE, value |-> Undef, error |-> error]
FnCallMsg(id, name, batch, items) ==
  [type |-> "fn-call", id |-> id, name |-> name, batch |-> batch, items |-> items]

\* the capability calls a fragment makes before it first suspends, in order
Calls(code) ==
  IF code.op = "query"
  THEN <<[name |-> "llmQuery", batch |-> code.batch, items |-> Items(code)]>>
  ELSE IF code.op = "par"
  THEN [i \in 1..code.n |-> [name |-> "llmQuery", batch |-> FALSE,
                             items |-> <<[query |-> i, context |-> EmptyStr]>>]]
  ELSE IF code.op \in {"raw", "logq"}
  THEN <<[name |-> "llmQuery", batch |-> FALSE, items |-> <<[query |-> 0, context |-> EmptyStr]>>]>>
  ELSE <<>>

\* output.join("\n")
RECURSIVE JoinLines(_)
JoinLines(lines) ==
  IF lines = <<>> THEN EmptyStr
  ELSE IF Len(lines) = 1 THEN lines[1]
  ELSE lines[1] \o NL \o JoinLines(Tail(lines))

LogLine(v) == <<[tok |-> "log", len |-> 1, v |-> v]>>

\* console.log(v) called by anyone: the line goes to the output array that
\* console.log is bound to, which a suspended execution may still read
ConsoleLog(wkr, v) ==
  [wkr EXCEPT !.running = {IF r.exec = wkr.console THEN [r EXCEPT !.out = Append(@, LogLine(v))]
                           ELSE r : r \in @}]

\* what a fragment evaluates to once its calls have settled with vals
Completion(code, vals) ==
  IF code.op = "par" THEN ArrV([j \in 1..Len(vals) |-> vals[j].str])
  ELSE IF code.op = "logq" THEN Undef
  ELSE vals[1]

\* lines 188-224: an execution ends, with a value or (threw) with an error
\* that is not a code error: its own output array takes priority over the
\* value, and the finally block puts console.log back and deletes print
Conclude(wkr, exec, threw, result) ==
  LET run == CHOOSE r \in wkr.running : r.exec = exec
      stdout == JoinLines(run.out)
      value == IF stdout # EmptyStr THEN StrV(stdout) ELSE result
  IN [wk |-> [wkr EXCEPT !.running = @ \ {run}, !.console = run.orig, !.print = 0],
      out |-> <<IF threw THEN ResultErr(exec, result) ELSE ResultMsg(exec, value)>>]

\* execute: [wk, out]; out is what the worker posts to the host
WorkerOnExecute(wkr, msg) ==
  LET code == msg.code
      calls == Calls(code)
      fids == [j \in 1..Len(calls) |-> wkr.fnCallId + j]
      run == [exec |-> msg.id, code |-> code, fids |-> fids,
              vals |-> [j \in 1..Len(calls) |-> Unset], out |-> <<>>, orig |-> wkr.console]
      started == [wkr EXCEPT !.running = @ \cup {run}, !.console = msg.id, !.print = msg.id]
  IN
  IF calls # <<>> THEN
    [wk |-> [started EXCEPT !.fnCallId = @ + Len(calls),
                            !.fnPending = @ \cup {fids[j] : j \in 1..Len(fids)}],
     out |-> (IF code.op = "raw" THEN <<FnCallMsg(code.val, "nope", FALSE, <<>>)>> ELSE <<>>)
             \o [j \in 1..Len(calls) |-> FnCallMsg(fids[j], calls[j].name, calls[j].batch, calls[j].items)]]
  ELSE IF code.op \in {"hang", "late"} THEN [wk |-> started, out |-> <<>>]
  ELSE IF code.op = "throw" THEN Conclude(started, msg.id, TRUE, BoomMsg)
  ELSE
    LET r == IF code.async THEN EvalAsync(wkr.globals, code) ELSE EvalSync(wkr.globals, code) IN
    Conclude([started EXCEPT !.globals = r.globals], msg.id, FALSE, r.result)

CaughtStr(error) == Str("caught: ", 8) \o error

\* fn-result: settles the pending call with that id, if there is one; the
\* execution awaiting it resumes when all its calls have settled, or at once
\* with the error of a rejected call that it does not catch
WorkerOnFnResultOldest(wkr, msg0) ==
  LET msg == [msg0 EXCEPT !.id = IF wkr.fnPending = {} THEN @
                                  ELSE CHOOSE i \in wkr.fnPending : \A k \in wkr.fnPending : i <= k] IN
  IF msg.id \notin wkr.fnPending THEN [wk |-> wkr, out |-> <<>>]
  ELSE
    LET w1 == [wkr EXCEPT !.fnPending = @ \ {msg.id}]
        awaiting == {r \in wkr.running : \E j \in 1..Len(r.fids) : r.fids[j] = msg.id}
    IN
    IF awaiting = {} THEN [wk |-> w1, out |-> <<>>]
    ELSE
      LET run == CHOOSE r \in awaiting : TRUE
          j == CHOOSE j \in 1..Len(run.fids) : run.fids[j] = msg.id
          caught == run.code.decl = "catch"
          val == IF msg.ok THEN msg.value ELSE StrV(CaughtStr(msg.error))
          run1 == [run EXCEPT !.vals[j] = val]
          w2 == [w1 EXCEPT !.running = (@ \ {run}) \cup {run1}]
      IN
      IF ~msg.ok /\ ~caught THEN Conclude(w1, run.exec, TRUE, msg.error)
      ELSE IF \E i \in 1..Len(run1.vals) : run1.vals[i] = Unset THEN [wk |-> w2, out |-> <<>>]
      ELSE Conclude(IF run.code.op = "logq" THEN ConsoleLog(w2, run.code.val) ELSE w2,
                    run.exec, FALSE, Completion(run.code, run1.vals))

WorkerOnFnResult(wkr, msg) ==
  IF msg.id \notin wkr.fnPending THEN [wk |-> wkr, out |-> <<>>]
  ELSE
    LET w1 == [wkr EXCEPT !.fnPending = @ \ {msg.id}]
        awaiting == {r \in wkr.running : \E j \in 1..Len(r.fids) : r.fids[j] = msg.id}
    IN
    IF awaiting = {} THEN [wk |-> w1, out |-> <<>>]
    ELSE
      LET run == CHOOSE r \in awaiting : TRUE
          j == CHOOSE j \in 1..Len(run.fids) : run.fids[j] = msg.id
          caught == run.code.decl = "catch"
          val == IF msg.ok THEN msg.value ELSE StrV(CaughtStr(msg.error))
          run1 == [run EXCEPT !.vals[j] = val]
          w2 == [w1 EXCEPT !.running = (@ \ {run}) \cup {run1}]
      IN
      IF ~msg.ok /\ ~caught THEN Conclude(w1, run.exec, TRUE, msg.error)
      ELSE IF \E i \in 1..Len(run1.vals) : run1.vals[i] = Unset THEN [wk |-> w2, out |-> <<>>]
      ELSE Conclude(IF run.code.op = "logq" THEN ConsoleLog(w2, run.code.val) ELSE w2,
                    run.exec, FALSE, Completion(run.code, run1.vals))

WorkerOnMessage(wkr, msg) ==
  IF msg.type = "init" THEN [wk |-> WorkerOnInit(wkr, msg), out |-> <<>>]
  ELSE IF msg.type = "fn-result" THEN WorkerOnFnResult(wkr, msg)
  ELSE WorkerOnExecute(wkr, msg)

\* ---------------------------------------------------------------- dispatcher
\* llmQuery of rlm_agent.ts.  A dispatcher state d is
\*   [count  - llmCallCount,
\*    real   - how many times a sub-query called client.chat,
\*    log    - one entry per singleLlmQuery call, in dispatch order,
\*    call   - the llmQuery invocation being run]
\* and a call is
\*   [sess, id  - the session and fn-call id it answers,
\*    batch, items, nextIdx, results, workers, dispatched]
\* where a worker of the pool is [pc, idx, no]: awaiting client.chat for
\* items[idx] as the no-th singleLlmQuery call, or done.
Hole == Str("<empty slot>", 0)
ExhaustedStr == Str("[ERROR] Sub-query budget exhausted", ExhaustedMsgLen)
AnswerStr(q) == <<[tok |-> "answer", len |-> AnswerLen, q |-> q]>>
WarningStr(used) == <<[tok |-> "[WARNING]", len |-> WarningLen, used |-> used]>>
ErrorTag == Str("[ERROR] ", 8)
Thrown == Str("<thrown>", 0)
Pending == Str("<pending>", 0)

warnThreshold(maxLlmCalls) == (maxLlmCalls * 8) \div 10

\* line 74: the check made right after llmCallCount++
BudgetExhaustedLate(count, maxLlmCalls) == count > maxLlmCalls + 1
BudgetExhausted(count, maxLlmCalls) == count > maxLlmCalls

\* line 75: the over-budget call returns the marker, it does not throw
OnExhaustedThrow == [threw |-> TRUE, str |-> ExhaustedStr]
OnExhausted == [threw |-> FALSE, str |-> ExhaustedStr]

\* lines 149-158: what a worker stores for an item whose call returned res or threw
ItemOutcomeDropped(ok, res) == IF ok THEN res ELSE Hole
ItemOutcome(ok, res) == IF ok THEN res ELSE ErrorTag \o res

\* lines 142-143: the size of the worker pool
PoolSizeAll(concurrency, n) == n
PoolSize(concurrency, n) == IF concurrency < n THEN concurrency ELSE n

\* line 146: const idx = nextIdx++
NextCursor(idx) == idx + 1

\* lines 150/155: the slot a worker writes the outcome of items[idx] to
SlotShared(idx, nextIdx) == IF nextIdx - 1 <= idx THEN idx ELSE nextIdx - 1
Slot(idx, nextIdx) == idx

\* lines 78-80: the context that goes into the user message, "" for none
SentContext(item, maxRuntimeChars) ==
  IF item.context = EmptyStr THEN EmptyStr ELSE truncate(item.context, maxRuntimeChars)

LogEntry(sess, q, real, result, ctx) ==
  [sess |-> sess, q |-> q, real |-> real, result |-> result, ctx |-> ctx]
IdleWorker == [pc |-> "done", idx |-> 0, no |-> 0]

\* The pool's workers in queue run, in turn, from the top of the loop (line
\* 145) to their next suspension: a worker whose call is answered at once with
\* the budget marker stores it and goes to the back of the queue; a worker
\* whose call reaches client.chat stays suspended; a worker that finds the
\* cursor past the end returns.
RECURSIVE RunWorkers(_, _, _, _)
RunWorkers(d, queue, maxLlmCalls, maxRuntimeChars) ==
  IF queue = <<>> THEN d
  ELSE
    LET w == Head(queue)
        idx == d.call.nextIdx
        taken == [d EXCEPT !.call.nextIdx = NextCursor(idx)]
        n == d.count + 1
    IN
    IF idx > Len(d.call.items)
    THEN RunWorkers([taken EXCEPT !.call.workers[w] = IdleWorker], Tail(queue), maxLlmCalls, maxRuntimeChars)
    ELSE IF BudgetExhausted(n, maxLlmCalls)
    THEN RunWorkers(
           [taken EXCEPT !.count = n,
                         !.log = Append(@, LogEntry(d.call.sess, d.call.items[idx].query, FALSE,
                                                    IF OnExhausted.threw THEN Thrown ELSE OnExhausted.str,
                                                    EmptyStr)),
                         !.call.results[Slot(idx, taken.call.nextIdx)] =
                             ItemOutcome(~OnExhausted.threw, OnExhausted.str),
                         !.call.completed = Append(@, idx),
                         !.call.dispatched = Append(@, idx)],
           Append(Tail(queue), w), maxLlmCalls, maxRuntimeChars)
    ELSE RunWorkers(
           [taken EXCEPT !.count = n, !.real = @ + 1,
                         !.log = Append(@, LogEntry(d.call.sess, d.call.items[idx].query, TRUE, Pending,
                                                    SentContext(d.call.items[idx], maxRuntimeChars))),
                         !.call.workers[w] = [pc |-> "await", idx |-> idx, no |-> n],
                         !.call.dispatched = Append(@, idx)],
           Tail(queue), maxLlmCalls, maxRuntimeChars)

AllDone(call) == \A w \in 1..Len(call.workers) : call.workers[w].pc = "done"
InFlight(call) == {w \in 1..Len(call.workers) : call.workers[w].pc = "await"}

NewCall(sess, id, batch, items, k) ==
  [sess |-> sess, id |-> id, batch |-> batch, items |-> items, nextIdx |-> 1,
   results |-> [i \in 1..Len(items) |-> Hole],
   workers |-> [w \in 1..k |-> [pc |-> "ready", idx |-> 0, no |-> 0]],
   dispatched |-> <<>>, completed |-> <<>>, failed |-> {}]

\* batchedLlmQuery up to its first suspension (lines 135-162)
BatchStart(d0, sess, id, items, cfg) ==
  LET k == PoolSize(cfg.maxBatchedLlmQueryConcurrency, Len(items))
      d == [d0 EXCEPT !.call = NewCall(sess, id, TRUE, items, k)]
  IN RunWorkers(d, [w \in 1..k |-> w], cfg.maxLlmCalls, cfg.maxRuntimeChars)

\* singleLlmQuery up to client.chat (lines 69-95), called by llmQuery directly
SingleStart(d0, sess, id, items, cfg) ==
  LET n == d0.count + 1
      c == NewCall(sess, id, FALSE, items, 1)
      q == items[1].query
  IN
  IF BudgetExhausted(n, cfg.maxLlmCalls)
  THEN [d0 EXCEPT !.count = n,
                  !.log = Append(@, LogEntry(sess, q, FALSE,
                                             IF OnExhausted.threw THEN Thrown ELSE OnExhausted.str,
                                             EmptyStr)),
                  !.call = [c EXCEPT !.results[1] = IF OnExhausted.threw THEN Hole ELSE OnExhausted.str,
                                     !.workers[1] = IdleWorker,
                                     !.dispatched = <<1>>, !.completed = <<1>>]]
  ELSE [d0 EXCEPT !.count = n, !.real = @ + 1,
                  !.log = Append(@, LogEntry(sess, q, TRUE, Pending,
                                             SentContext(items[1], cfg.maxRuntimeChars))),
                  !.call = [c EXCEPT !.workers[1] = [pc |-> "await", idx |-> 1, no |-> n],
                                     !.dispatched = <<1>>]]

\* lines 96-101: what singleLlmQuery returns once client.chat has answered
\* (the counter is read again here, after the await)
SingleResult(q, count, maxLlmCalls) ==
  IF count = warnThreshold(maxLlmCalls)
  THEN AnswerStr(q) \o WarningStr(count)
  ELSE AnswerStr(q)

\* client.chat of worker w's call settles (ok, or it throws): the rest of
\* singleLlmQuery, then for a batch the worker's store (lines 150-157) and its
\* next turns of the loop.  [d, err]: err is the message llmQuery throws with,
\* which only a single call can do.
SubQuerySettled(d0, w, ok, cfg) ==
  LET wk == d0.call.workers[w]
      q == d0.call.items[wk.idx].query
      res == IF ok THEN SingleResult(q, d0.count, cfg.maxLlmCalls) ELSE ChatFailedMsg
      d == [d0 EXCEPT !.log[wk.no].result = IF ok THEN res ELSE Thrown,
                      !.call.completed = Append(@, wk.idx),
                      !.call.failed = IF ok THEN @ ELSE @ \cup {wk.idx}]
  IN
  IF d.call.batch
  THEN [d |-> RunWorkers([d EXCEPT !.call.results[Slot(wk.idx, d.call.nextIdx)] = ItemOutcome(ok, res)],
                         <<w>>, cfg.maxLlmCalls, cfg.maxRuntimeChars),
        err |-> EmptyStr]
  ELSE [d |-> [d EXCEPT !.call.results[1] = IF ok THEN res ELSE Hole,
                        !.call.workers[w] = IdleWorker],
        err |-> IF ok THEN EmptyStr ELSE res]

\* ------------------------------------------------------------------- state
VARIABLES
  env,              \* the process environment
  cfg,              \* the RLMAgentConfig of the invocation
  pc,               \* where rlmAgentForward is suspended, or how it ended
  step,             \* the loop variable of the main loop
  messages,         \* the conversation
  codeTrajectory,   \* { code, output } pairs
  stepRecords,      \* what the afterStep hook was called with
  session,          \* which session the variable `session` refers to
  sessionTimedOut,
  code,             \* the code of the code step in progress
  ret,              \* what rlmAgentForward returned or threw
  llmCallCount,
  sess,             \* host side of every session created: closed, execId, pending
  wk,               \* the worker of every session
  toWorker,         \* messages posted to each worker, not yet handled
  toHost,           \* messages posted by each worker, not yet handled
  calls,            \* llmQuery invocations suspended on the host
  real,             \* history: sub-query calls that reached client.chat
  log,              \* history: every singleLlmQuery call in dispatch order
  lastReturn,       \* history: the llmQuery invocation that settled last
  attempts,         \* history: session.execute calls and sessions created in this code step
  menu,             \* the fragments the model may submit in this invocation
  kinds,            \* the shapes of reply the model may give in this invocation
  replies,          \* history: the replies client.chat gave the main loop
  extraction,       \* history: client.chat calls of the fallback extractor, and the
                    \* trajectory text of the last
  promises,         \* the promises execute() returned to a direct caller of the
                    \* session: [sess, id, code, status, str]
  peer,             \* a second invocation running in the same process: its state,
                    \* while the first one's is in the variables above
  focus,            \* which of the two the variables above belong to
  usages,           \* the token totals the provider may report for a reply
  loop,             \* runRalphLoop: its locals, where it is suspended, what it returned
  store,            \* the trace index and the archived trace files under outDir
  mem,              \* the memory file and what appendToMemory did last
  bound             \* history: the session and value of the last completed "var x = v" or "x = v"

vars == <<env, cfg, pc, step, messages, codeTrajectory, stepRecords, session, sessionTimedOut,
          code, ret, llmCallCount, sess, wk, toWorker, toHost, calls, real, log,
          lastReturn, attempts, bound, menu, kinds, replies, extraction, promises, peer, focus,
          usages, loop, store, mem>>

\* the state as one record, for the handlers below, which are functions on it
World ==
  [pc |-> pc, step |-> step, messages |-> messages, codeTrajectory |-> codeTrajectory,
   stepRecords |-> stepRecords, session |-> session, sessionTimedOut |-> sessionTimedOut,
   code |-> code, ret |-> ret, llmCallCount |-> llmCallCount, sess |-> sess, wk |-> wk,
   toWorker |-> toWorker, toHost |-> toHost, calls |-> calls, real |-> real, log |-> log,
   lastReturn |-> lastReturn, attempts |-> attempts, bound |-> bound,
   replies |-> replies, extraction |-> extraction, promises |-> promises]

\* the invocation's variables take the values of w
Assign(w) ==
  /\ pc' = w.pc /\ step' = w.step /\ messages' = w.messages
  /\ codeTrajectory' = w.codeTrajectory /\ stepRecords' = w.stepRecords
  /\ session' = w.session /\ sessionTimedOut' = w.sessionTimedOut
  /\ code' = w.code /\ ret' = w.ret /\ llmCallCount' = w.llmCallCount
  /\ sess' = w.sess /\ wk' = w.wk /\ toWorker' = w.toWorker /\ toHost' = w.toHost
  /\ calls' = w.calls /\ real' = w.real /\ log' = w.log /\ lastReturn' = w.lastReturn
  /\ attempts' = w.attempts /\ bound' = w.bound
  /\ replies' = w.replies /\ extraction' = w.extraction /\ promises' = w.promises
  /\ env' = env /\ cfg' = cfg /\ menu' = menu /\ kinds' = kinds /\ usages' = usages


\* ------------------------------------------------------ host side of a session
\* rlm_runtime.ts
NoCode == Code("none", "none", FALSE, 0, FALSE, 0)
InitMsg == [type |-> "init", id |-> 0, code |-> NoCode, globals |-> DocV]
ExecuteMsg(id, c) == [type |-> "execute", id |-> id, code |-> c]
FnResultMsg(id, value) == [type |-> "fn-result", id |-> id, ok |-> TRUE, value |-> value, error |-> EmptyStr]
FnResultErr(id, error) == [type |-> "fn-result", id |-> id, ok |-> FALSE, value |-> Undef, error |-> error]
NameLen(name) == IF name = "context" THEN 7 ELSE 8
ReservedMsg(name) ==
  <<[tok |-> "[ERROR] Cannot reassign reserved variable", len |-> 76 + NameLen(name), name |-> name]>>
NotFoundMsg(name) == <<[tok |-> "Function not found", len |-> 25, name |-> name]>>
\* rlm_agent.ts lines 167-171: the capabilities the engine registers
fnProxies == {"llmQuery"}
StrictMsg == Str("[ERROR] use strict is not allowed", 84)

\* rlm_agent.ts line 176
reservedNames == <<"llmQuery", "context">>

\* /(?:^|[;\n])\s*(?:(?:var|let|const)\s+)?NAME\s*=/ : the name, after an
\* optional declarator, opens a statement and "=" follows it
ReservedPattern(c, name) ==
  c.op = "assign" /\ c.name = name /\ c.lead = "start" /\ c.opr = "="

\* /['"]use strict['"]/
UseStrictPattern(c) == c.op = "strict"
DeadWorker == [FreshWorker EXCEPT !.alive = FALSE]

\* createSandboxSession: spawns the worker and posts init
createSandboxSession(w) ==
  [w EXCEPT !.sess = Append(@, [closed |-> FALSE, execId |-> 0, pending |-> {}]),
            !.wk = Append(@, FreshWorker),
            !.toWorker = Append(@, <<InitMsg>>),
            !.toHost = Append(@, <<>>),
            !.attempts.created = @ + 1]

TerminatedMsg == Str("Worker terminated", 17)

\* p.reject / p.resolve of the pending entry id of session s
Settle(ps, s, id, status, str) ==
  [i \in DOMAIN ps |-> IF ps[i].sess = s /\ ps[i].id = id
                       THEN [ps[i] EXCEPT !.status = status, !.str = str] ELSE ps[i]]

\* terminate(): the worker and what it had posted or was sent are gone, and
\* every pending execute is rejected
terminateKeepsPending(w, s) ==
  [w EXCEPT !.sess[s].closed = TRUE,
            !.wk[s] = DeadWorker, !.toWorker[s] = <<>>, !.toHost[s] = <<>>]

terminate(w, s) ==
  [w EXCEPT !.sess[s].closed = TRUE, !.sess[s].pending = {},
            !.wk[s] = DeadWorker, !.toWorker[s] = <<>>, !.toHost[s] = <<>>,
            !.promises = [i \in DOMAIN @ |->
                            IF @[i].sess = s /\ @[i].id \in w.sess[s].pending
                            THEN [@[i] EXCEPT !.status = "rejected", !.str = TerminatedMsg]
                            ELSE @[i]]]

\* worker.onerror (lines 87-95): every pending execute is rejected with the
\* error; the session stays open
UncaughtMsg == Str("<error event of the worker>", 0)
onerror(w, s) ==
  [w EXCEPT !.sess[s].pending = {},
            !.promises = [i \in DOMAIN @ |->
                            IF @[i].sess = s /\ @[i].id \in w.sess[s].pending
                            THEN [@[i] EXCEPT !.status = "rejected", !.str = UncaughtMsg]
                            ELSE @[i]]]

\* session.execute(code): [w, status, str] with status "pending" (the promise
\* is unsettled), "resolved" or "rejected"
execute(w0, s, c) ==
  LET w == [w0 EXCEPT !.attempts.executes = @ + 1] IN
  IF w.sess[s].closed THEN [w |-> w, status |-> "rejected", str |-> ClosedMsg]
  ELSE IF \E i \in 1..Len(reservedNames) : ReservedPattern(c, reservedNames[i])
  THEN LET i == CHOOSE i \in 1..Len(reservedNames) :
                  /\ ReservedPattern(c, reservedNames[i])
                  /\ \A j \in 1..(i - 1) : ~ReservedPattern(c, reservedNames[j])
       IN [w |-> w, status |-> "resolved", str |-> ReservedMsg(reservedNames[i])]
  ELSE IF UseStrictPattern(c) THEN [w |-> w, status |-> "resolved", str |-> StrictMsg]
  ELSE LET id == w.sess[s].execId + 1 IN
       [w |-> [w EXCEPT !.sess[s].execId = id, !.sess[s].pending = @ \cup {id},
                        !.toWorker[s] = Append(@, ExecuteMsg(id, c))],
        status |-> "pending", str |-> EmptyStr]

\* -------------------------------------------------------------- step engine
\* rlmAgentForward of rlm_agent.ts
Turn(role, content) == [role |-> role, content |-> content]
OK == Str("OK", 2)
Nudge == Str("Please use the output tool", 167)
CodeExecuted == Str("Code Executed: ", 15)
FallbackFields == <<[tok |-> "summary", len |-> 0, val |-> "ok"]>>
JsonErrorMsg == Str("<SyntaxError of JSON.parse>", 0)
MaxStepsError == Str("Max steps reached", 62)
NoAttempts == [executes |-> 0, created |-> 0]

OrNoOutput(raw) == IF raw = EmptyStr THEN NoOutput ELSE raw

\* buildRLMTrajectory of rlm_prompt.ts
RECURSIVE TrajectoryBlocks(_, _)
TrajectoryBlocks(steps, i) ==
  IF i > Len(steps) THEN <<>>
  ELSE (IF i = 1 THEN <<>> ELSE Str("\\n\\n", 2))
       \o <<[tok |-> "Step", len |-> 5 + Digits(i), i |-> i],
            [tok |-> "\\nCode:\\n", len |-> 7, code |-> steps[i].code],
            [tok |-> "\\nOutput:\\n", len |-> 9]>>
       \o steps[i].output \o TrajectoryBlocks(steps, i + 1)

buildRLMTrajectory(steps) ==
  IF steps = <<>> THEN Str("(no interpreter steps captured)", 31)
  ELSE TrajectoryBlocks(steps, 1)

\* attemptFallbackExtraction up to its client.chat (lines 419-455)
attemptFallbackExtraction(w) ==
  [w EXCEPT !.pc = "fallback",
            !.extraction = [calls |-> @.calls + 1, text |-> buildRLMTrajectory(w.codeTrajectory)]]

\* step++ and the loop test (line 309); past the ceiling the fallback's
\* client.chat is called (lines 385-392, 449)
NextIterationOffByOne(w) ==
  IF w.step + 1 <= cfg.maxSteps THEN [w EXCEPT !.step = @ + 1, !.pc = "requesting"]
  ELSE attemptFallbackExtraction([w EXCEPT !.step = @ + 1])

NextIteration(w) ==
  IF w.step + 1 < cfg.maxSteps THEN [w EXCEPT !.step = @ + 1, !.pc = "requesting"]
  ELSE attemptFallbackExtraction([w EXCEPT !.step = @ + 1])

\* lines 371-382
FinishTurn(w, toolContent) ==
  NextIteration([w EXCEPT !.messages = @ \o <<Turn("assistant", EmptyStr), Turn("tool", toolContent)>>])

\* codeTrajectory.push and return output (lines 182-183, 207-208, 222-223,
\* 227-228), then line 368
FinishCode(w, output) ==
  FinishTurn([w EXCEPT !.codeTrajectory = Append(@, [code |-> w.code, output |-> output])],
             CodeExecuted \o output)

\* the catch of the main loop (lines 402-405)
FailLeavesSessionOpen(w, err) == [w EXCEPT !.pc = "failed", !.ret = err]

Fail(w, err) == [terminate(w, w.session) EXCEPT !.pc = "failed", !.ret = err]

\* lines 201-224: the retried execute settled
AfterRetryNoMarker(w, status, str) ==
  IF status = "resolved"
  THEN FinishCode(w, truncate(OrNoOutput(str), cfg.maxRuntimeChars))
  ELSE FinishCode([w EXCEPT !.sessionTimedOut = (@ \/ str = TimedOutMsg)],
                  truncate(RESTART_MSG \o NL \o ErrorPrefix \o str, cfg.maxRuntimeChars))

AfterRetryRethrow(w, status, str) ==
  IF status = "resolved"
  THEN FinishCode(w, truncate(RESTART_MSG \o NL \o OrNoOutput(str), cfg.maxRuntimeChars))
  ELSE Fail([w EXCEPT !.sessionTimedOut = (@ \/ str = TimedOutMsg)], str)

\* the same without lines 210-215
AfterRetryForgetsTimeout(w, status, str) ==
  IF status = "resolved"
  THEN FinishCode(w, truncate(RESTART_MSG \o NL \o OrNoOutput(str), cfg.maxRuntimeChars))
  ELSE FinishCode(w, truncate(RESTART_MSG \o NL \o ErrorPrefix \o str, cfg.maxRuntimeChars))

AfterRetry(w, status, str) ==
  IF status = "resolved"
  THEN FinishCode(w, truncate(RESTART_MSG \o NL \o OrNoOutput(str), cfg.maxRuntimeChars))
  ELSE FinishCode([w EXCEPT !.sessionTimedOut = (@ \/ str = TimedOutMsg)],
                  truncate(RESTART_MSG \o NL \o ErrorPrefix \o str, cfg.maxRuntimeChars))

\* lines 193-202: restart the session and submit the same code again
RestartKeepState(w) ==
  LET w1 == createSandboxSession([w EXCEPT !.sessionTimedOut = FALSE])
      w2 == [w1 EXCEPT !.session = Len(w1.sess), !.wk[Len(w1.sess)].globals.x = NumV(1)]
      r == execute(w2, w2.session, w.code)
  IN IF r.status = "pending" THEN [r.w EXCEPT !.pc = "retrying"]
     ELSE AfterRetry(r.w, r.status, r.str)

RestartResetBudget(w) ==
  LET w1 == createSandboxSession([w EXCEPT !.sessionTimedOut = FALSE, !.llmCallCount = 0])
      w2 == [w1 EXCEPT !.session = Len(w1.sess)]
      r == execute(w2, w2.session, w.code)
  IN IF r.status = "pending" THEN [r.w EXCEPT !.pc = "retrying"]
     ELSE AfterRetry(r.w, r.status, r.str)

RestartLogsFirstAttempt(w) ==
  LET w0 == [w EXCEPT !.codeTrajectory =
               Append(@, [code |-> w.code,
                          output |-> truncate(ErrorPrefix \o TimedOutMsg, cfg.maxRuntimeChars)])]
      w1 == createSandboxSession([w0 EXCEPT !.sessionTimedOut = FALSE])
      w2 == [w1 EXCEPT !.session = Len(w1.sess)]
      r == execute(w2, w2.session, w.code)
  IN IF r.status = "pending" THEN [r.w EXCEPT !.pc = "retrying"]
     ELSE AfterRetry(r.w, r.status, r.str)

Restart(w) ==
  LET w1 == createSandboxSession([w EXCEPT !.sessionTimedOut = FALSE])
      w2 == [w1 EXCEPT !.session = Len(w1.sess)]
      r == execute(w2, w2.session, w.code)
  IN IF r.status = "pending" THEN [r.w EXCEPT !.pc = "retrying"]
     ELSE AfterRetry(r.w, r.status, r.str)

\* lines 180-231: the first execute of a code step settled
\* the same restarting after any rejection
AfterFirstAlwaysRestarts(w0, status, str) ==
  IF status = "resolved"
  THEN FinishCode(w0, truncate(OrNoOutput(str), cfg.maxRuntimeChars))
  ELSE Restart([w0 EXCEPT !.sessionTimedOut = (@ \/ str = TimedOutMsg)])

AfterFirst(w0, status, str) ==
  IF status = "resolved"
  THEN FinishCode(w0, truncate(OrNoOutput(str), cfg.maxRuntimeChars))
  ELSE LET w == [w0 EXCEPT !.sessionTimedOut = (@ \/ str = TimedOutMsg)] IN
       IF str \in {ClosedMsg, TimedOutMsg}
       THEN IF w.sessionTimedOut THEN Restart(w)
            ELSE FinishCode(w, truncate(ErrorPrefix \o str, cfg.maxRuntimeChars))
       ELSE Fail(w, str)

\* executeCode up to its first suspension
executeCode(w0, c) ==
  LET w == [w0 EXCEPT !.code = c, !.attempts = NoAttempts]
      r == execute(w, w.session, c)
  IN IF r.status = "pending" THEN [r.w EXCEPT !.pc = "executing"]
     ELSE AfterFirst(r.w, r.status, r.str)

\* the promise executeCode awaits settled
\* the same with the timer terminating the worker but rejecting nothing
ExecuteSettledLosesTimeout(w, status, str) ==
  IF str = TimedOutMsg THEN w
  ELSE IF w.pc = "executing" THEN AfterFirst(w, status, str) ELSE AfterRetry(w, status, str)

ExecuteSettled(w, status, str) ==
  IF w.pc = "executing" THEN AfterFirst(w, status, str) ELSE AfterRetry(w, status, str)

\* the promise of execute() number id of session s settles: executeCode goes
\* on if it is the engine that awaits it
PromiseSettled(w, s, id, status, str) ==
  IF w.pc = "api" THEN [w EXCEPT !.promises = Settle(@, s, id, status, str)]
  ELSE ExecuteSettled(w, status, str)

\* What the model can answer in a turn of the main loop, by kind:
\*   none      - no tool call at all
\*   other     - a tool call, but not of the output tool
\*   badjson   - the output tool called with arguments that are not JSON
\*   nocode    - the output tool with a domain field only
\*   code      - the output tool with javascriptCode
\*   ready     - the output tool with resultReady: true
\*   readycode - the output tool with resultReady: true and javascriptCode
BasicKinds == {"none", "nocode", "code", "ready"}
AllKinds == BasicKinds \cup {"other", "badjson", "readycode"}
Replies ==
  {[kind |-> k, code |-> NoCode, usage |-> u] : k \in kinds \ {"code", "readycode"}, u \in usages} \cup
  {[kind |-> k, code |-> c, usage |-> u] : k \in kinds \cap {"code", "readycode"}, c \in menu, u \in usages}

\* JSON.parse(outputCall.arguments): the fields of the object in key order
Parsed(reply) ==
  <<[tok |-> "summary", len |-> 0, val |-> "partial"]>>
  \o (IF reply.code # NoCode THEN <<[tok |-> "javascriptCode", len |-> 0, val |-> reply.code]>> ELSE <<>>)
  \o (IF reply.kind \in {"ready", "readycode"} THEN <<[tok |-> "resultReady", len |-> 0, val |-> BoolV(TRUE)]>> ELSE <<>>)

Field(parsed, name) ==
  IF \E i \in 1..Len(parsed) : parsed[i].tok = name
  THEN (CHOOSE f \in {parsed[i] : i \in 1..Len(parsed)} : f.tok = name).val
  ELSE Undef

isResultReady(value) == value.t = "bool" /\ value.b

IsDomainField(f) == f.tok \notin {"javascriptCode", "resultReady"}
stripHelperFields(parsed) == SelectSeq(parsed, IsDomainField)

\* the afterStep hook of makeStepCollector (worker.ts): the record it pushes,
\* without the prompt and completion counts
afterStep(stepIndex, usage) == [stepIndex |-> stepIndex, totalTokens |-> usage]

\* lines 315-382: one answered client.chat of the main loop
RepliedCodeFirst(w0, reply) ==
  LET w == [w0 EXCEPT !.stepRecords = Append(@, afterStep(w0.step, reply.usage)),
                      !.replies = Append(@, reply)] IN
  IF reply.kind = "none"
  THEN NextIteration([w EXCEPT !.messages = @ \o <<Turn("assistant", EmptyStr), Turn("user", Nudge)>>])
  ELSE IF reply.kind = "other"
  THEN NextIteration([w EXCEPT !.messages = @ \o <<Turn("assistant", EmptyStr), Turn("tool", OK)>>])
  ELSE IF reply.kind = "badjson" THEN Fail(w, JsonErrorMsg)
  ELSE LET parsed == Parsed(reply) IN
       IF Field(parsed, "javascriptCode") # Undef
       THEN executeCode(w, Field(parsed, "javascriptCode"))
       ELSE IF isResultReady(Field(parsed, "resultReady"))
       THEN [terminate(w, w.session) EXCEPT !.pc = "done", !.ret = stripHelperFields(parsed)]
       ELSE FinishTurn(w, OK)

RepliedHookAfterParse(w0, reply) ==
  LET w == [w0 EXCEPT !.replies = Append(@, reply)]
      h == [w EXCEPT !.stepRecords = Append(@, afterStep(w0.step, reply.usage))] IN
  IF reply.kind = "none"
  THEN NextIteration([w EXCEPT !.messages = @ \o <<Turn("assistant", EmptyStr), Turn("user", Nudge)>>])
  ELSE IF reply.kind = "other"
  THEN NextIteration([w EXCEPT !.messages = @ \o <<Turn("assistant", EmptyStr), Turn("tool", OK)>>])
  ELSE IF reply.kind = "badjson" THEN Fail(w, JsonErrorMsg)
  ELSE LET parsed == Parsed(reply) IN
       IF isResultReady(Field(parsed, "resultReady"))
       THEN [terminate(h, h.session) EXCEPT !.pc = "done", !.ret = stripHelperFields(parsed)]
       ELSE IF Field(parsed, "javascriptCode") # Undef
       THEN executeCode(h, Field(parsed, "javascriptCode"))
       ELSE FinishTurn(h, OK)

Replied(w0, reply) ==
  LET w == [w0 EXCEPT !.stepRecords = Append(@, afterStep(w0.step, reply.usage)),
                      !.replies = Append(@, reply)] IN
  IF reply.kind = "none"
  THEN NextIteration([w EXCEPT !.messages = @ \o <<Turn("assistant", EmptyStr), Turn("user", Nudge)>>])
  ELSE IF reply.kind = "other"
  THEN NextIteration([w EXCEPT !.messages = @ \o <<Turn("assistant", EmptyStr), Turn("tool", OK)>>])
  ELSE IF reply.kind = "badjson" THEN Fail(w, JsonErrorMsg)
  ELSE LET parsed == Parsed(reply) IN
       IF isResultReady(Field(parsed, "resultReady"))
       THEN [terminate(w, w.session) EXCEPT !.pc = "done", !.ret = stripHelperFields(parsed)]
       ELSE IF Field(parsed, "javascriptCode") # Undef
       THEN executeCode(w, Field(parsed, "javascriptCode"))
       ELSE FinishTurn(w, OK)

\* What the fallback's client.chat can do: throw; answer without the tool
\* call; call the tool with arguments that are not JSON, that are the JSON
\* null, an object without fields, or an object with the domain fields.
\* attemptFallbackExtraction returns the parsed value, or null (lines 448-467).
FallbackOutcomes == {"throws", "nocall", "badjson", "null", "empty", "fields"}
Null == [t |-> "null"]
ObjV(fields) == [t |-> "obj", fields |-> fields]
FallbackResult(outcome) ==
  IF outcome = "fields" THEN ObjV(FallbackFields)
  ELSE IF outcome = "empty" THEN ObjV(<<>>)
  ELSE Null
Truthy(v) == v.t = "obj"

\* lines 393-401: attemptFallbackExtraction settled
FallbackSettledRetry(w, outcome) ==
  LET fallbackResult == FallbackResult(outcome) IN
  IF Truthy(fallbackResult)
  THEN [terminate(w, w.session) EXCEPT !.pc = "done", !.ret = fallbackResult.fields]
  ELSE IF w.extraction.calls < 2 THEN attemptFallbackExtraction(w)
  ELSE Fail(terminate(w, w.session), MaxStepsError)

FallbackSettled(w, outcome) ==
  LET fallbackResult == FallbackResult(outcome) IN
  IF Truthy(fallbackResult)
  THEN [terminate(w, w.session) EXCEPT !.pc = "done", !.ret = fallbackResult.fields]
  ELSE Fail(terminate(w, w.session), MaxStepsError)

\* classifyWorkerError of loop_helpers.ts, called by the generation loop
\* with what forward() threw and the collector's records
classifyWorkerError(err, steps, e) ==
  IF err # MaxStepsError THEN Null
  ELSE [tag |-> "max-steps-reached",
        stepsCompleted |-> IF steps = <<>> THEN 0 ELSE steps[Len(steps)].stepIndex + 1,
        maxSteps |-> getEnvInt(e.WORKER_MAX_STEPS, DefaultMaxSteps),
        totalTokensUsed |-> IF steps = <<>> THEN 0 ELSE steps[Len(steps)].totalTokens,
        steps |-> steps]

\* ------------------------------------------------- host side of a capability call
DState(w, call) == [count |-> w.llmCallCount, real |-> w.real, log |-> w.log, call |-> call]
NoReturn == [call |-> NewCall(0, 0, FALSE, <<>>, 0), err |-> EmptyStr, returned |-> FALSE,
             posted |-> FALSE]

\* rlm_runtime.ts lines 67-83: the promise of fn(...args) settled
\* the same without the test of closed
FnSettledUnguarded(w0, call, err) ==
  LET w == [w0 EXCEPT !.lastReturn = [call |-> call, err |-> err, returned |-> TRUE, posted |-> TRUE]]
      value == IF call.batch THEN ArrV(call.results) ELSE StrV(call.results[1])
  IN [w EXCEPT !.toWorker[call.sess] =
        Append(@, IF err # EmptyStr THEN FnResultErr(call.id, err)
                                    ELSE FnResultMsg(call.id, value))]

\* the same with one worker and one closed flag for the whole invocation
FnSettledToCurrent(w0, call, err) ==
  LET w == [w0 EXCEPT !.lastReturn = [call |-> call, err |-> err, returned |-> TRUE,
                                      posted |-> ~w0.sess[w0.session].closed]]
      value == IF call.batch THEN ArrV(call.results) ELSE StrV(call.results[1])
  IN IF w.sess[w.session].closed THEN w
     ELSE [w EXCEPT !.toWorker[w.session] =
             Append(@, IF err # EmptyStr THEN FnResultErr(call.id, err)
                                         ELSE FnResultMsg(call.id, value))]

FnSettled(w0, call, err) ==
  LET w == [w0 EXCEPT !.lastReturn = [call |-> call, err |-> err, returned |-> TRUE,
                                      posted |-> ~w0.sess[call.sess].closed]]
      value == IF call.batch THEN ArrV(call.results) ELSE StrV(call.results[1])
  IN IF w.sess[call.sess].closed THEN w
     ELSE [w EXCEPT !.toWorker[call.sess] =
             Append(@, IF err # EmptyStr THEN FnResultErr(call.id, err)
                                         ELSE FnResultMsg(call.id, value))]

\* the dispatcher ran to quiescence: keep the call if it is still suspended,
\* settle it if llmQuery returned or threw
Absorb(w0, old, d, err) ==
  LET w == [w0 EXCEPT !.llmCallCount = d.count, !.real = d.real, !.log = d.log,
                      !.calls = @ \ old]
  IN IF AllDone(d.call) THEN FnSettled(w, d.call, err)
     ELSE [w EXCEPT !.calls = @ \cup {d.call}]

\* llmQuery (lines 104-133) called for a fn-call message
llmQuery(w, s, msg) ==
  LET d0 == DState(w, NoReturn.call)
      d == IF msg.batch THEN BatchStart(d0, s, msg.id, msg.items, cfg)
           ELSE SingleStart(d0, s, msg.id, msg.items, cfg)
  IN Absorb(w, {}, d, IF ~msg.batch /\ OnExhausted.threw /\ AllDone(d.call)
                      THEN OnExhausted.str ELSE EmptyStr)

\* ------------------------------------------------------------ memory file
\* memory.ts.  The text of the memory file: a lead, which is nothing, the
\* "[trimmed N older blocks]" marker or text somebody put there, and then the
\* blocks, each "\n\n" followed by "## Iter N - <timestamp>\n\n<update>".
\* len is the length of a piece without the "\n\n" before it.
Piece(kind, n, len) == [kind |-> kind, n |-> n, len |-> len]
NoLead == Piece("none", 0, 0)
Marker(dropped) == Piece("marker", dropped, 22 + Digits(dropped) + (IF dropped > 1 THEN 1 ELSE 0))
Block(iter, updateLen) == Piece("block", iter, 8 + Digits(iter) + 3 + TimestampLen + 2 + updateLen)
Text(lead, blocks) == [lead |-> lead, blocks |-> blocks]
EmptyText == Text(NoLead, <<>>)

RECURSIVE PiecesLen(_)
PiecesLen(pieces) == IF pieces = <<>> THEN 0 ELSE pieces[1].len + PiecesLen(Tail(pieces))

\* content.length
TextLen(content) == content.lead.len + PiecesLen(content.blocks) + 2 * Len(content.blocks)

\* blocks.join("\n\n").length
JoinedLen(blocks) ==
  IF blocks = <<>> THEN 0 ELSE PiecesLen(blocks) + 2 * (Len(blocks) - 1)

\* splitMemoryBlocks: the text is cut before every "\n## Iter ", the parts
\* trimmed and the empty ones left out
splitMemoryBlocks(content) ==
  (IF content.lead.len > 0 THEN <<content.lead>> ELSE <<>>) \o content.blocks

\* the while loop of trimMemory (lines 45-50)
RECURSIVE DropOldest(_, _)
DropOldest(blocks, dropped) ==
  IF Len(blocks) > 1
  THEN IF JoinedLen(Tail(blocks)) <= MemoryBudget - PrefixReserve
       THEN [blocks |-> Tail(blocks), dropped |-> dropped + 1]
       ELSE DropOldest(Tail(blocks), dropped + 1)
  ELSE [blocks |-> blocks, dropped |-> dropped]

trimMemory(content) ==
  IF TextLen(content) <= MemoryBudget THEN [trimmed |-> content, blocksDropped |-> 0]
  ELSE LET r == DropOldest(splitMemoryBlocks(content), 0) IN
       IF r.dropped = 0 THEN [trimmed |-> content, blocksDropped |-> 0]
       ELSE [trimmed |-> Text(Marker(r.dropped), r.blocks), blocksDropped |-> r.dropped]

\* appendToMemory(memPath, update, iter) with the file holding m.content:
\* the file afterwards, and as history the text handed to trimMemory
appendToMemory(m, updateLen, iter) ==
  LET combined == Text(m.content.lead, Append(m.content.blocks, Block(iter, updateLen)))
  IN [content |-> trimMemory(combined).trimmed, combined |-> combined, appends |-> m.appends + 1]

\* ------------------------------------------------------------ trace store
\* git_memory.ts: under outDir, the index file and one archived file per
\* session and iteration.  A file is missing, or holds text that is not JSON,
\* or holds the JSON of a trace; stamp tells the writes of a trace apart.
Sessions == 1..MaxSessions
Iters == 1..MaxIters
FileOf(kind, iter, stamp) == [kind |-> kind, iter |-> iter, stamp |-> stamp]
Missing == FileOf("missing", 0, 0)
NotJson == FileOf("malformed", 0, 0)
TraceFile(iter, stamp) == FileOf("trace", iter, stamp)

\* makeEmptyIndex, and a directory with nothing archived; stores counts the
\* calls of storeIterTrace and stands for the clock, latest is a history of
\* the last call that reached writeIndexAtomic, result what the last
\* querySessionTraces returned
EmptyStore ==
  [index |-> [s \in Sessions |-> <<>>],
   files |-> [f \in Sessions \X Iters |-> Missing],
   stores |-> 0,
   latest |-> [f \in Sessions \X Iters |-> 0],
   result |-> <<>>, asked |-> 0]

\* Array.prototype.sort((a, b) => a.iter - b.iter): stable, ascending
RECURSIVE InsertByIter(_, _)
InsertByIter(sorted, e) ==
  IF sorted = <<>> THEN <<e>>
  ELSE IF sorted[Len(sorted)].iter <= e.iter THEN Append(sorted, e)
  ELSE Append(InsertByIter(SubSeq(sorted, 1, Len(sorted) - 1), e), sorted[Len(sorted)])

RECURSIVE SortByIter(_)
SortByIter(entries) ==
  IF entries = <<>> THEN <<>>
  ELSE InsertByIter(SortByIter(SubSeq(entries, 1, Len(entries) - 1)), entries[Len(entries)])

OtherIters(entries, iter) == SelectSeq(entries, LAMBDA entry : entry.iter # iter)

\* storeIterTrace(trace, tracePath, sessionId) with the file at tracePath
\* holding content.  What the file system does is the outcome: "stored",
\* "copy fails" (mkdir or copyFile throws), "index fails" (readIndex or
\* writeIndexAtomic throws after the copy).
StoreOutcomes == {"stored", "copy fails", "index fails"}
storeIterTraceKeepsOld(st0, iter, content, sessionId, outcome) ==
  LET st == [st0 EXCEPT !.stores = @ + 1] IN
  IF outcome = "copy fails" \/ content = Missing THEN [st |-> st, ok |-> FALSE]
  ELSE LET copied == [st EXCEPT !.files[sessionId, iter] = content] IN
       IF outcome = "index fails" THEN [st |-> copied, ok |-> FALSE]
       ELSE LET nextEntry == [iter |-> iter, tracePath |-> <<sessionId, iter>>, storedAt |-> st.stores]
            IN [st |-> [copied EXCEPT !.index[sessionId] = SortByIter(Append(@, nextEntry)),
                                      !.latest[sessionId, iter] = st.stores],
                ok |-> TRUE]

storeIterTrace(st0, iter, content, sessionId, outcome) ==
  LET st == [st0 EXCEPT !.stores = @ + 1] IN
  IF outcome = "copy fails" \/ content = Missing THEN [st |-> st, ok |-> FALSE]
  ELSE LET copied == [st EXCEPT !.files[sessionId, iter] = content] IN
       IF outcome = "index fails" THEN [st |-> copied, ok |-> FALSE]
       ELSE LET nextEntry == [iter |-> iter, tracePath |-> <<sessionId, iter>>, storedAt |-> st.stores]
            IN [st |-> [copied EXCEPT !.index[sessionId] =
                                        SortByIter(Append(OtherIters(@, iter), nextEntry)),
                                      !.latest[sessionId, iter] = st.stores],
                ok |-> TRUE]

\* the loop of querySessionTraces over the ordered entries from the i-th on
RECURSIVE ReadTraces(_, _, _)
ReadTraces(st, ordered, i) ==
  IF i > Len(ordered) THEN <<>>
  ELSE LET file == st.files[ordered[i].tracePath] IN
       (IF file.kind = "trace" THEN <<file>> ELSE <<>>) \o ReadTraces(st, ordered, i + 1)

querySessionTraces(st, sessionId) == ReadTraces(st, SortByIter(st.index[sessionId]), 1)

\* ------------------------------------------------------- generation loop
\* ralph.ts, hard_validate.ts
\* A GenerateOut by what hardValidate looks at: the number of bullet lines of
\* the answer, whether the answer names both "Ralph" and "RLM", and each
\* evidence quote after trim(): which text it is (0 for the empty one), its
\* length, and whether the document contains it.
Quote(id, len, verbatim) == [id |-> id, len |-> len, verbatim |-> verbatim]
GenerateOut(bullets, mentions, evidence) ==
  [bullets |-> bullets, mentions |-> mentions, evidence |-> evidence]
EmptyOut == GenerateOut(0, FALSE, <<>>)
GoodOut ==
  GenerateOut(MinBullets, TRUE, <<Quote(1, 40, TRUE), Quote(2, 40, TRUE), Quote(3, 40, TRUE)>>)
\* the outputs the worker may return: a valid one, one with a bullet too few,
\* one whose quotes are a duplicate and an overlong text not in the document,
\* and the empty one
GenerateOuts ==
  {GoodOut,
   GenerateOut(MinBullets - 1, TRUE, GoodOut.evidence),
   GenerateOut(MaxBullets, TRUE,
               <<Quote(1, 40, TRUE), Quote(1, 40, TRUE), Quote(2, MaxQuoteLen + 1, FALSE)>>),
   EmptyOut}

Issue(tok, i) == [tok |-> tok, i |-> i]

RECURSIVE QuoteIssues(_, _)
QuoteIssues(ev, i) ==
  IF i > Len(ev) THEN <<>>
  ELSE LET quote == ev[i] IN
       (IF quote.id = 0 THEN <<Issue("is empty", i - 1)>>
        ELSE (IF quote.len > MaxQuoteLen THEN <<Issue("is too long", i - 1)>> ELSE <<>>)
             \o (IF \E j \in 1..(i - 1) : ev[j].id = quote.id
                 THEN <<Issue("is a duplicate quote", i - 1)>> ELSE <<>>)
             \o (IF ~quote.verbatim THEN <<Issue("is not a verbatim substring", i - 1)>> ELSE <<>>))
       \o QuoteIssues(ev, i + 1)

hardValidate(out) ==
  LET issues ==
        (IF out.bullets < MinBullets \/ out.bullets > MaxBullets
         THEN <<Issue("answer must contain 3-7 bullet lines", out.bullets)>> ELSE <<>>)
        \o (IF Len(out.evidence) < MinQuotes \/ Len(out.evidence) > MaxQuotes
            THEN <<Issue("evidence must contain 3-8 quotes", Len(out.evidence))>> ELSE <<>>)
        \o QuoteIssues(out.evidence, 1)
        \o (IF ~out.mentions THEN <<Issue("answer must mention both", 0)>> ELSE <<>>)
  IN [ok |-> issues = <<>>, issues |-> issues]

\* what judge.forward may resolve with: ok "yes", "no" or absent, issues an
\* empty array, an array of one issue, or no array
JudgeReplies == [ok : {"yes", "no", "undefined"}, issues : {"none", "some", "not an array"}]
JudgeOut(raw) ==
  [ok |-> IF raw.ok = "undefined" THEN "no" ELSE raw.ok,
   issues |-> IF raw.issues = "some" THEN <<Issue("judge", 0)>> ELSE <<>>]
SkippedJudge == [ok |-> "no", issues |-> <<>>]
NoJudge == [ok |-> "undefined", issues |-> <<>>]

baseConstraints == [tok |-> "base", iter |-> 0, prev |-> EmptyOut, hard |-> <<>>, judge |-> <<>>]
feedbackConstraints(iter, prev, hardIssues, judgeIssues) ==
  [tok |-> "feedback", iter |-> iter, prev |-> prev, hard |-> hardIssues, judge |-> judgeIssues]

BudgetIssue == <<Issue("Worker exhausted step budget", 0)>>
WriteFailed == Str("<error of Deno.writeTextFile>", 0)
JudgeFailed == Str("<error of judge.forward>", 0)

\* the locals of an iteration before its generation settled
Iteration(l, iter) ==
  [l EXCEPT !.iter = iter, !.pc = "generating", !.generated = EmptyOut,
            !.workerError = Null, !.hard = [ok |-> FALSE, issues |-> <<>>],
            !.judge = NoJudge, !.passed = FALSE]

\* runRalphLoop up to worker.forward of the first iteration (lines 67-100)
runRalphLoop(maxIters, sessionId) ==
  Iteration([maxIters |-> maxIters, sessionId |-> sessionId, constraints |-> baseConstraints,
             last |-> EmptyOut, traces |-> <<>>, ok |-> FALSE, output |-> EmptyOut,
             err |-> EmptyStr, forwards |-> 1,
             iter |-> 0, pc |-> "", generated |-> EmptyOut, workerError |-> Null,
             hard |-> [ok |-> FALSE, issues |-> <<>>], judge |-> NoJudge, passed |-> FALSE], 1)

\* the trace of the iteration, pushed; Deno.writeTextFile is awaited next
\* (lines 139-157, 226-244)
PushTrace(l) ==
  [l EXCEPT !.pc = "writing",
            !.traces = Append(@, [iter |-> l.iter, constraints |-> l.constraints,
                                  generated |-> l.generated, hard |-> l.hard,
                                  judge |-> l.judge, passed |-> l.passed,
                                  workerError |-> l.workerError])]

\* lines 205-236: the judge's verdict is in
Judged(l, judge) ==
  PushTrace([l EXCEPT !.judge = judge,
                      !.passed = (l.hard.ok /\ judge.ok = "yes" /\ judge.issues = <<>>)])

\* lines 101-219: worker.forward settled, as rlmAgentForward ended in w with
\* the fields of generated
ForwardSettledAbort(l, w, generated) ==
  IF w.pc = "failed" THEN [l EXCEPT !.pc = "threw", !.err = w.ret]
  ELSE LET hard == hardValidate(generated)
           l1 == [l EXCEPT !.generated = generated, !.hard = hard]
       IN IF hard.ok THEN [l1 EXCEPT !.pc = "judging"] ELSE Judged(l1, SkippedJudge)

ForwardSettled(l, w, generated) ==
  IF w.pc = "failed"
  THEN LET classified == classifyWorkerError(w.ret, w.stepRecords, env) IN
       IF classified = Null THEN [l EXCEPT !.pc = "threw", !.err = w.ret]
       ELSE PushTrace([l EXCEPT !.workerError = classified, !.generated = EmptyOut,
                                !.hard = [ok |-> FALSE, issues |-> BudgetIssue]])
  ELSE LET hard == hardValidate(generated)
           l1 == [l EXCEPT !.generated = generated, !.hard = hard]
       IN IF hard.ok THEN [l1 EXCEPT !.pc = "judging"] ELSE Judged(l1, SkippedJudge)

\* iter++ and the loop test (line 76), then the next worker.forward or the
\* return of line 282
NextGenerationOneMore(l) ==
  IF l.iter <= l.maxIters THEN [Iteration(l, l.iter + 1) EXCEPT !.forwards = @ + 1]
  ELSE [l EXCEPT !.iter = @ + 1, !.pc = "returned", !.ok = FALSE, !.output = l.last]

NextGeneration(l) ==
  IF l.iter + 1 <= l.maxIters THEN [Iteration(l, l.iter + 1) EXCEPT !.forwards = @ + 1]
  ELSE [l EXCEPT !.iter = @ + 1, !.pc = "returned", !.ok = FALSE, !.output = l.last]

\* lines 158-174, 248-276: the trace is written and storeIterTrace settled
TraceStored(l0) ==
  LET l == [l0 EXCEPT !.last = l0.generated] IN
  IF l.workerError # Null THEN NextGeneration(l)
  ELSE IF l.passed THEN [l EXCEPT !.pc = "returned", !.ok = TRUE, !.output = l.generated]
  ELSE NextGeneration([l EXCEPT !.constraints =
         feedbackConstraints(l.iter, l.generated, l.hard.issues, l.judge.issues)])

\* -------------------------------------------------------------------- actions
\* A step of the invocation in focus.  When the step ends an invocation that
\* runRalphLoop awaits, the loop goes on in the same task, with the answer
\* and evidence the returned fields hold.
Becomes(w) ==
  /\ Assign(w) /\ peer' = peer /\ focus' = focus /\ store' = store /\ mem' = mem
  /\ IF loop.pc = "generating" /\ w.pc \in {"done", "failed"}
     THEN \E generated \in (IF w.pc = "done" THEN GenerateOuts ELSE {EmptyOut}) :
            loop' = ForwardSettled(loop, w, generated)
     ELSE loop' = loop

\* rlmAgentForward up to the first client.chat of its main loop (lines 61-67,
\* 167-172, 234-313)
NewInvocation ==
  [pc |-> "requesting", step |-> 0,
   messages |-> <<Turn("system", EmptyStr), Turn("user", EmptyStr)>>,
   codeTrajectory |-> <<>>, stepRecords |-> <<>>, session |-> 1, sessionTimedOut |-> FALSE,
   code |-> NoCode, ret |-> EmptyStr, llmCallCount |-> 0,
   sess |-> <<[closed |-> FALSE, execId |-> 0, pending |-> {}]>>,
   wk |-> <<FreshWorker>>, toWorker |-> <<<<InitMsg>>>>, toHost |-> <<<<>>>>,
   calls |-> {}, real |-> 0, log |-> <<>>, lastReturn |-> NoReturn,
   attempts |-> NoAttempts, bound |-> [sess |-> 0, val |-> 0],
   replies |-> <<>>, extraction |-> [calls |-> 0, text |-> EmptyStr], promises |-> <<>>]

InitInvocation(codes, shapes, at) ==
  /\ menu = codes /\ kinds = shapes /\ promises = NewInvocation.promises
  /\ replies = NewInvocation.replies /\ extraction = NewInvocation.extraction
  /\ pc = at /\ step = NewInvocation.step
  /\ messages = NewInvocation.messages
  /\ codeTrajectory = NewInvocation.codeTrajectory /\ stepRecords = NewInvocation.stepRecords
  /\ session = NewInvocation.session /\ sessionTimedOut = NewInvocation.sessionTimedOut
  /\ code = NewInvocation.code /\ ret = NewInvocation.ret
  /\ llmCallCount = NewInvocation.llmCallCount
  /\ sess = NewInvocation.sess
  /\ wk = NewInvocation.wk /\ toWorker = NewInvocation.toWorker /\ toHost = NewInvocation.toHost
  /\ calls = NewInvocation.calls /\ real = NewInvocation.real /\ log = NewInvocation.log
  /\ lastReturn = NewInvocation.lastReturn
  /\ attempts = NewInvocation.attempts /\ bound = NewInvocation.bound

NoPeer == [pc |-> "none"]
\* no generation loop, trace store or memory file in play
NoLoop == [pc |-> "none"]
NoStore == [index |-> <<>>]
NoMem == [content |-> <<>>]
Standalone == usages = {1} /\ loop = NoLoop /\ store = NoStore /\ mem = NoMem

InitAt(codes, shapes, at) ==
  InitInvocation(codes, shapes, at) /\ peer = NoPeer /\ focus = 1 /\ Standalone

InitState(codes, shapes) == InitAt(codes, shapes, "requesting")

\* rlmAgentForward called with a config of the caller's choosing
InitOf(codes, shapes) ==
  /\ InitState(codes, shapes)
  /\ cfg \in Configs
  /\ env = [WORKER_MAX_STEPS |-> cfg.maxSteps, WORKER_MAX_LLM_CALLS |-> cfg.maxLlmCalls]

InitWith(codes) == InitOf(codes, BasicKinds)

Init == InitWith(Codes)

\* client.chat of the main loop answers
ModelTurn ==
  /\ pc = "requesting"
  /\ \E reply \in Replies : Becomes(Replied(World, reply))

\* client.chat of the main loop throws
ModelTurnFails ==
  /\ pc = "requesting"
  /\ Becomes(Fail(World, ChatFailedMsg))

\* client.chat of the fallback extraction settles
FallbackTurn ==
  /\ pc = "fallback"
  /\ \E outcome \in FallbackOutcomes : Becomes(FallbackSettled(World, outcome))

\* a worker handles the next message posted to it
WorkerStep(s) ==
  /\ wk[s].alive /\ toWorker[s] # <<>>
  /\ LET r == WorkerOnMessage(wk[s], Head(toWorker[s]))
     IN Becomes([World EXCEPT !.wk[s] = r.wk, !.toWorker[s] = Tail(@),
                              !.toHost[s] = @ \o r.out])

\* worker.onmessage, a result message (lines 42-53)
HostOnResult(s) ==
  /\ toHost[s] # <<>> /\ Head(toHost[s]).type = "result"
  /\ LET msg == Head(toHost[s])
         w == [World EXCEPT !.toHost[s] = Tail(@)]
     IN IF msg.id \in sess[s].pending
        THEN LET w1 == [w EXCEPT !.sess[s].pending = @ \ {msg.id},
                                 !.bound = IF msg.ok /\ code.op = "bind" /\ code.decl # "let"
                                           THEN [sess |-> s, val |-> code.val] ELSE @]
             IN Becomes(IF msg.ok THEN PromiseSettled(w1, s, msg.id, "resolved", formatValue(msg.value))
                                  ELSE PromiseSettled(w1, s, msg.id, "rejected", msg.error))
        ELSE Becomes(w)

\* worker.onmessage, a fn-call message (lines 55-84)
HostOnFnCallDropsUnknown(s) ==
  /\ toHost[s] # <<>> /\ Head(toHost[s]).type = "fn-call"
  /\ LET msg == Head(toHost[s])
         w == [World EXCEPT !.toHost[s] = Tail(@)]
     IN IF msg.name \notin fnProxies
        THEN Becomes(w)
        ELSE Becomes(llmQuery(w, s, msg))

HostOnFnCall(s) ==
  /\ toHost[s] # <<>> /\ Head(toHost[s]).type = "fn-call"
  /\ LET msg == Head(toHost[s])
         w == [World EXCEPT !.toHost[s] = Tail(@)]
     IN IF msg.name \notin fnProxies
        THEN Becomes([w EXCEPT !.toWorker[s] = Append(@, FnResultErr(msg.id, NotFoundMsg(msg.name)))])
        ELSE Becomes(llmQuery(w, s, msg))

\* client.chat of a sub-query answers or throws
SubQueryReply ==
  \E c \in calls : \E w \in InFlight(c) : \E ok \in BOOLEAN :
    LET r == SubQuerySettled(DState(World, c), w, ok, cfg)
    IN Becomes(Absorb(World, {c}, r.d, r.err))

\* the timer of a pending execute fires (lines 148-152)
\* the same without the reject of line 151
TimeoutForgetsPromise(s) ==
  \E id \in sess[s].pending :
    Becomes(terminate([World EXCEPT !.sess[s].pending = @ \ {id}], s))

Timeout(s) ==
  \E id \in sess[s].pending :
    Becomes(PromiseSettled(terminate([World EXCEPT !.sess[s].pending = @ \ {id}], s),
                           s, id, "rejected", TimedOutMsg))

Next ==
  \/ ModelTurn
  \/ ModelTurnFails
  \/ FallbackTurn
  \/ \E s \in 1..Len(sess) : WorkerStep(s)
  \/ \E s \in 1..Len(sess) : HostOnResult(s)
  \/ \E s \in 1..Len(sess) : HostOnFnCall(s)
  \/ SubQueryReply
  \/ \E s \in 1..Len(sess) : Timeout(s)

Spec == Init /\ [][Next]_vars

\* the invocations in which the model submits only llmQuery fragments and no
\* execute() reaches its 30 s timer
InitDispatch == InitWith(QueryCodes)
NextDispatch ==
  \/ ModelTurn
  \/ ModelTurnFails
  \/ FallbackTurn
  \/ \E s \in 1..Len(sess) : WorkerStep(s)
  \/ \E s \in 1..Len(sess) : HostOnResult(s)
  \/ \E s \in 1..Len(sess) : HostOnFnCall(s)
  \/ SubQueryReply
SpecDispatch == InitDispatch /\ [][NextDispatch]_vars

\* the invocations in which the model submits no llmQuery fragment: no
\* fn-call is ever posted
SessionCodes ==
  {c \in BindCodes : c.decl = "var" \/ (c.decl = "bare" /\ c.val = 1)} \cup ReadCodes \cup DumpCodes
InitSession == InitWith(SessionCodes)
NextSession ==
  \/ ModelTurn
  \/ ModelTurnFails
  \/ FallbackTurn
  \/ \E s \in 1..Len(sess) : WorkerStep(s)
  \/ \E s \in 1..Len(sess) : HostOnResult(s)
  \/ \E s \in 1..Len(sess) : Timeout(s)
SpecSession == InitSession /\ [][NextSession]_vars

\* the invocations in which the model submits "await llmQuery([q1, q2])" and
\* an execute() may reach its timer
AbandonCodes == {c \in QueryCodes : c.n = 2}
InitAbandon == InitWith(AbandonCodes)
SpecAbandon == InitAbandon /\ [][Next]_vars

\* the invocations in which the model submits assignments to preloaded names,
\* the strict directive, or a look at the document
InitGuard == InitWith(AssignCodes \cup StrictCodes \cup DumpCodes)
SpecGuard == InitGuard /\ [][NextSession]_vars

\* the invocations in which the model gives replies of every shape, with a
\* look at the document or a rejected assignment as code
EngineCodes == DumpCodes \cup {AssignCode("context", "start", "bare", "=")}
InitEngine == InitOf(EngineCodes, AllKinds)
SpecEngine == InitEngine /\ [][NextSession]_vars

\* Two invocations of rlmAgentForward in one process.  Each call creates its
\* own llmCallCount, codeTrajectory, session and conversation (lines 61-67,
\* 167-172, 302-305); the event loop runs a task of either.  The variables
\* hold the state of the invocation in focus and peer that of the other; the
\* actions above are the steps of the one in focus.
SwitchSharesCounter ==
  /\ peer # NoPeer
  /\ Assign([peer EXCEPT !.llmCallCount = llmCallCount])
  /\ peer' = World /\ focus' = 3 - focus
  /\ loop' = loop /\ store' = store /\ mem' = mem

Switch ==
  /\ peer # NoPeer
  /\ Assign(peer)
  /\ peer' = World /\ focus' = 3 - focus
  /\ loop' = loop /\ store' = store /\ mem' = mem

PairCodes == {c \in QueryCodes : ~c.batch}
PairKinds == {"code", "ready"}
InitPair ==
  /\ InitInvocation(PairCodes, PairKinds, "requesting")
  /\ cfg \in {c \in Configs : c.maxLlmCalls = 1 /\ c.maxBatchedLlmQueryConcurrency = 1}
  /\ env = [WORKER_MAX_STEPS |-> cfg.maxSteps, WORKER_MAX_LLM_CALLS |-> cfg.maxLlmCalls]
  /\ peer = World /\ focus = 1 /\ Standalone
NextPair ==
  \/ ModelTurn
  \/ ModelTurnFails
  \/ FallbackTurn
  \/ \E s \in 1..Len(sess) : WorkerStep(s)
  \/ \E s \in 1..Len(sess) : HostOnResult(s)
  \/ \E s \in 1..Len(sess) : HostOnFnCall(s)
  \/ SubQueryReply
  \/ \E s \in 1..Len(sess) : Timeout(s)
  \/ Switch
SpecPair == InitPair /\ [][NextPair]_vars

\* A session used directly: a caller that holds the RuntimeSession calls
\* execute() with a fragment of the menu, without waiting for earlier calls,
\* and close()
ApiExecute ==
  /\ pc = "api" /\ Len(promises) < MaxExecutes
  /\ \E c \in menu :
       LET r == execute(World, session, c)
           p == [sess |-> session, code |-> c, status |-> r.status, str |-> r.str,
                 id |-> IF r.status = "pending" THEN r.w.sess[session].execId ELSE 0]
       IN Becomes([r.w EXCEPT !.promises = Append(@, p)])

ApiClose ==
  /\ pc = "api"
  /\ Becomes(terminate(World, session))

ApiCodes == LogCodes \cup DumpCodes
InitApi ==
  /\ InitAt(ApiCodes, {}, "api")
  /\ cfg \in {c \in Configs : c.maxLlmCalls = MaxCeiling /\ c.maxBatchedLlmQueryConcurrency = MaxConc}
  /\ env = [WORKER_MAX_STEPS |-> cfg.maxSteps, WORKER_MAX_LLM_CALLS |-> cfg.maxLlmCalls]
NextApi ==
  \/ ApiExecute
  \/ ApiClose
  \/ \E s \in 1..Len(sess) : WorkerStep(s)
  \/ \E s \in 1..Len(sess) : HostOnResult(s)
  \/ \E s \in 1..Len(sess) : HostOnFnCall(s)
  \/ SubQueryReply
  \/ \E s \in 1..Len(sess) : Timeout(s)
SpecApi == InitApi /\ [][NextApi]_vars

\* the invocations in which the model submits fragments that make two calls
\* at once, or post a request for a capability that is not registered
BridgeCodes == ParCodes \cup RawCodes
InitBridge == InitWith(BridgeCodes)
SpecBridge == InitBridge /\ [][NextDispatch]_vars

\* the invocations in which the model submits llmQuery calls with a context
InitContext == InitWith(CtxCodes)
SpecContext == InitContext /\ [][NextDispatch]_vars

\* the invocations in which the model submits "", "var x = 1", "x" or a
\* throw, and no execute() reaches its timer
OutputCodes == EmptyCodes \cup ThrowCodes \cup SilentCodes \cup {c \in ReadCodes : ~c.async}
InitOutput == InitWith(OutputCodes)
NextOutput ==
  \/ ModelTurn
  \/ ModelTurnFails
  \/ FallbackTurn
  \/ \E s \in 1..Len(sess) : WorkerStep(s)
  \/ \E s \in 1..Len(sess) : HostOnResult(s)
SpecOutput == InitOutput /\ [][NextOutput]_vars

\* the worker agent of worker.ts: the config comes from the environment
InitBudget ==
  /\ InitState(EngineCodes, AllKinds)
  /\ env \in Envs
  /\ cfg = WorkerConfig(env)
SpecBudget == InitBudget /\ [][NextSession]_vars

\* runRalphLoop with the worker agent of worker.ts: each iteration is an
\* invocation of rlmAgentForward in which the model looks at the document,
\* answers without the tool or gives the completion signal
JudgeReply ==
  /\ loop.pc = "judging"
  /\ \E raw \in JudgeReplies : loop' = Judged(loop, JudgeOut(raw))
  /\ Assign(World) /\ peer' = peer /\ focus' = focus /\ store' = store /\ mem' = mem

\* judge.forward throws: nothing in runRalphLoop catches it
JudgeFails ==
  /\ loop.pc = "judging"
  /\ loop' = [loop EXCEPT !.pc = "threw", !.err = JudgeFailed]
  /\ Assign(World) /\ peer' = peer /\ focus' = focus /\ store' = store /\ mem' = mem

\* Deno.writeTextFile of the trace throws
TraceWriteFails ==
  /\ loop.pc = "writing"
  /\ loop' = [loop EXCEPT !.pc = "threw", !.err = WriteFailed]
  /\ Assign(World) /\ peer' = peer /\ focus' = focus /\ store' = store /\ mem' = mem

\* the trace is written and storeIterTrace settles; the loop goes on to the
\* next worker.forward, which starts an invocation, or returns
TraceWritten ==
  /\ loop.pc = "writing"
  /\ \E outcome \in StoreOutcomes :
       LET r == storeIterTrace(store, loop.iter, TraceFile(loop.iter, store.stores + 1),
                               loop.sessionId, outcome)
           l == TraceStored(loop)
       IN /\ store' = r.st /\ loop' = l
          /\ Assign(IF l.pc = "generating" THEN NewInvocation ELSE World)
  /\ peer' = peer /\ focus' = focus /\ mem' = mem

RalphKinds == {"none", "code", "ready"}
InitRalph ==
  /\ InitInvocation(DumpCodes, RalphKinds, "requesting")
  /\ usages = 1..MaxTokens /\ peer = NoPeer /\ focus = 1
  /\ env \in Envs /\ cfg = WorkerConfig(env)
  /\ loop \in {runRalphLoop(maxIters, 1) : maxIters \in Iters}
  /\ store = EmptyStore /\ mem = NoMem
NextRalph ==
  \/ ModelTurn
  \/ ModelTurnFails
  \/ FallbackTurn
  \/ \E s \in 1..Len(sess) : WorkerStep(s)
  \/ \E s \in 1..Len(sess) : HostOnResult(s)
  \/ JudgeReply
  \/ JudgeFails
  \/ TraceWriteFails
  \/ TraceWritten
SpecRalph == InitRalph /\ [][NextRalph]_vars

\* The trace store used directly: storeIterTrace for any session and
\* iteration, in any order, with the trace file holding the trace, text that
\* is not JSON, or missing; archived files and the index file are removed or
\* overwritten behind its back; querySessionTraces
StoreTrace ==
  /\ store.stores < MaxStores
  /\ \E sessionId \in Sessions, iter \in Iters, outcome \in StoreOutcomes :
       \E content \in {TraceFile(iter, store.stores + 1), NotJson, Missing} :
         store' = storeIterTrace(store, iter, content, sessionId, outcome).st
  /\ Assign(World) /\ peer' = peer /\ focus' = focus /\ loop' = loop /\ mem' = mem

ArchiveLost ==
  /\ \E f \in Sessions \X Iters :
       /\ store.files[f] # Missing
       /\ store' = [store EXCEPT !.files[f] = Missing]
  /\ Assign(World) /\ peer' = peer /\ focus' = focus /\ loop' = loop /\ mem' = mem

ArchiveCorrupted ==
  /\ \E f \in Sessions \X Iters :
       /\ store.files[f].kind = "trace"
       /\ store' = [store EXCEPT !.files[f] = NotJson]
  /\ Assign(World) /\ peer' = peer /\ focus' = focus /\ loop' = loop /\ mem' = mem

IndexLost ==
  /\ store.index # EmptyStore.index
  /\ store' = [store EXCEPT !.index = EmptyStore.index]
  /\ Assign(World) /\ peer' = peer /\ focus' = focus /\ loop' = loop /\ mem' = mem

QueryTraces ==
  /\ \E sessionId \in Sessions :
       store' = [store EXCEPT !.result = querySessionTraces(store, sessionId), !.asked = sessionId]
  /\ Assign(World) /\ peer' = peer /\ focus' = focus /\ loop' = loop /\ mem' = mem

\* no invocation of rlmAgentForward in play
NoInvocation ==
  /\ InitInvocation({}, {}, "none") /\ usages = {1} /\ peer = NoPeer /\ focus = 1
  /\ env = [WORKER_MAX_STEPS |-> 0, WORKER_MAX_LLM_CALLS |-> 0] /\ cfg = WorkerConfig(env)

InitStore == NoInvocation /\ loop = NoLoop /\ store = EmptyStore /\ mem = NoMem
NextStore ==
  \/ StoreTrace
  \/ ArchiveLost
  \/ ArchiveCorrupted
  \/ IndexLost
  \/ QueryTraces
SpecStore == InitStore /\ [][NextStore]_vars

\* The memory file of a task: missing or holding notes somebody wrote, and
\* then appended to once per iteration with an update of a short, a medium
\* or a long text
UpdateLens == {100, 700, 1450, 1600}
LeadLens == {0, 300}
AppendToMemory ==
  /\ mem.appends < MaxAppends
  /\ \E updateLen \in UpdateLens : mem' = appendToMemory(mem, updateLen, mem.appends + 1)
  /\ Assign(World) /\ peer' = peer /\ focus' = focus /\ loop' = loop /\ store' = store

InitMemory ==
  /\ NoInvocation /\ loop = NoLoop /\ store = NoStore
  /\ \E len \in LeadLens :
       LET content == Text(IF len = 0 THEN NoLead ELSE Piece("text", 0, len), <<>>)
       IN mem = [content |-> content, combined |-> content, appends |-> 0]
SpecMemory == InitMemory /\ [][AppendToMemory]_vars

\* The invocations in which the model submits a fragment that never
\* completes, a look at the document or one llmQuery call.  Every client.chat
\* settles, every posted message is handled, and the timer of an execute()
\* that stays pending fires.
LiveCodes == HangCodes \cup DumpCodes \cup {c \in QueryCodes : ~c.batch}
InitLive ==
  /\ InitState(LiveCodes, BasicKinds)
  /\ cfg \in {c \in Configs : c.maxLlmCalls = 1 /\ c.maxBatchedLlmQueryConcurrency = 1}
  /\ env = [WORKER_MAX_STEPS |-> cfg.maxSteps, WORKER_MAX_LLM_CALLS |-> cfg.maxLlmCalls]
Fairness ==
  /\ WF_vars(ModelTurn \/ ModelTurnFails)
  /\ WF_vars(FallbackTurn)
  /\ WF_vars(\E s \in 1..Len(sess) : WorkerStep(s))
  /\ WF_vars(\E s \in 1..Len(sess) : HostOnResult(s))
  /\ WF_vars(\E s \in 1..Len(sess) : HostOnFnCall(s))
  /\ WF_vars(SubQueryReply)
  /\ WF_vars(\E s \in 1..Len(sess) : Timeout(s))
SpecLive == InitLive /\ [][Next]_vars /\ Fairness

\* A session used directly, with fragments that throw, never complete, or
\* throw outside of their execution.  The error thrown late reaches
\* worker.onerror; whether the worker goes on running afterwards is left
\* open.  Messages are handled and timers fire as long as there are any; the
\* caller may stop calling.
WorkerError(s) ==
  /\ pc = "api" /\ wk[s].alive /\ ~sess[s].closed
  /\ \E r \in wk[s].running : r.code.op = "late"
  /\ \E dies \in BOOLEAN :
       LET w == onerror(World, s)
           late == {r \in wk[s].running : r.code.op = "late"}
       IN Becomes(IF dies THEN [w EXCEPT !.wk[s] = DeadWorker, !.toWorker[s] = <<>>]
                  ELSE [w EXCEPT !.wk[s].running = @ \ late])

SettleCodes == LateCodes \cup DumpCodes \cup {c \in LogCodes : c.val = 1}
InitSettle ==
  /\ InitAt(SettleCodes, {}, "api")
  /\ cfg \in {c \in Configs : c.maxLlmCalls = MaxCeiling /\ c.maxBatchedLlmQueryConcurrency = MaxConc}
  /\ env = [WORKER_MAX_STEPS |-> cfg.maxSteps, WORKER_MAX_LLM_CALLS |-> cfg.maxLlmCalls]
NextSettle ==
  \/ ApiExecute
  \/ ApiClose
  \/ \E s \in 1..Len(sess) : WorkerStep(s)
  \/ \E s \in 1..Len(sess) : HostOnResult(s)
  \/ \E s \in 1..Len(sess) : HostOnFnCall(s)
  \/ SubQueryReply
  \/ \E s \in 1..Len(sess) : Timeout(s)
  \/ \E s \in 1..Len(sess) : WorkerError(s)
\* what the two event loops and the model do without the caller
EventLoop ==
  \/ \E s \in 1..Len(sess) : WorkerStep(s) \/ HostOnResult(s) \/ HostOnFnCall(s) \/ Timeout(s)
  \/ SubQueryReply
SpecSettle == InitSettle /\ [][NextSettle]_vars /\ WF_vars(EventLoop)

\* the invocations in which the model submits a fragment that never
\* completes, a throw or a look at the document, and an execute() may reach
\* its timer
RestartCodes == HangCodes \cup ThrowCodes \cup DumpCodes
InitRestart == InitWith(RestartCodes)
SpecRestart == InitRestart /\ [][NextSession]_vars

\* ------------------------------------------------------------------ claims
Last(s) == s[Len(s)]
IsAnswer(s) == s # <<>> /\ s[1].tok = "answer"
HasWarning(s) == \E i \in 1..Len(s) : s[i].tok = "[WARNING]"
ErrorTagged(s) == StartsWith(s, ErrorTag) \/ s = ExhaustedStr
Range(s) == {s[i] : i \in 1..Len(s)}
Batches == {c \in calls \cup {lastReturn.call} : c.batch}
Returned == lastReturn.returned /\ lastReturn.call.batch

\* C1: with ceiling N = cfg.maxLlmCalls, the i-th singleLlmQuery call in
\* dispatch order reaches client.chat exactly when i <= N; every later call
\* is answered with the budget-exhausted marker; so at most N sub-query calls
\* ever reach the model.
C1_FirstNCallsAreReal ==
  /\ real <= cfg.maxLlmCalls
  /\ real = Cardinality({i \in 1..Len(log) : log[i].real})
  /\ Len(log) = llmCallCount
  /\ \A i \in 1..Len(log) :
       /\ log[i].real <=> i <= cfg.maxLlmCalls
       /\ log[i].real => log[i].result # ExhaustedStr
       /\ ~log[i].real => log[i].result = ExhaustedStr

\* more calls than the ceiling were made, some of them in a batch, and the
\* ceiling's worth of them reached the model
C1_Witness ==
  /\ llmCallCount > cfg.maxLlmCalls /\ real = cfg.maxLlmCalls
  /\ Returned /\ ExhaustedStr \in Range(lastReturn.call.results)
  /\ \E i \in 1..Len(log) : log[i].q = 0

\* C2: a sub-query made past the ceiling is answered with an error-tagged
\* string and never by a throw: llmQuery only ever rejects with the model
\* call's own failure, an invocation never fails with anything but a failed
\* model call or the max-steps error, and a batch of 3 under ceiling 2 (no
\* other sub-query made, no model failure) returns two answers and the marker.
C2_OverBudgetIsAString ==
  /\ \A i \in 1..Len(log) : i > cfg.maxLlmCalls => log[i].result = ExhaustedStr
  /\ lastReturn.err \in {EmptyStr, ChatFailedMsg}
  /\ \A s \in 1..Len(sess) : \A i \in 1..Len(toWorker[s]) :
       toWorker[s][i].type = "fn-result" /\ ~toWorker[s][i].ok => toWorker[s][i].error = ChatFailedMsg
  /\ pc = "failed" => ret \in {ChatFailedMsg, MaxStepsError}
  /\ ( /\ Returned /\ Len(lastReturn.call.items) = 3 /\ cfg.maxLlmCalls = 2
       /\ llmCallCount = 3 /\ lastReturn.call.failed = {} )
     => /\ lastReturn.err = EmptyStr
        /\ \A i \in 1..2 : /\ IsAnswer(lastReturn.call.results[i])
                           /\ lastReturn.call.results[i][1].q = lastReturn.call.items[i].query
        /\ lastReturn.call.results[3] = ExhaustedStr

\* the batch of 3 under ceiling 2 returned and the invocation completed
C2_Witness ==
  /\ Returned /\ Len(lastReturn.call.items) = 3 /\ cfg.maxLlmCalls = 2
  /\ llmCallCount = 3 /\ lastReturn.call.failed = {}
  /\ lastReturn.call.results[3] = ExhaustedStr
  /\ pc = "done"

\* C3: llmCallCount never decreases and is never reset; creating a session
\* (the restart) leaves it unchanged; every singleLlmQuery call is counted,
\* whichever session dispatched it and however its model call ended.
C3_CounterMonotonicAndShared ==
  [][ /\ llmCallCount' >= llmCallCount
      /\ Len(sess') # Len(sess) => llmCallCount' = llmCallCount
      /\ llmCallCount' = Len(log')
      /\ Len(log') >= Len(log) ]_vars

\* calls of a discarded session and of its replacement are in one count, a
\* call was dispatched after its session was discarded, and one call failed
C3_Witness ==
  /\ Len(sess) >= 2 /\ llmCallCount = Len(log)
  /\ \E i, j \in 1..Len(log) : log[i].sess = 1 /\ log[j].sess = 2 /\ i > j
  /\ \E i \in 1..Len(log) : log[i].result = Thrown

\* C4 (as claimed): the warning is in the result of the call that brought the
\* count to the high-water mark, and in no other call's result.
C4_WarningOnCrossingCall ==
  \A i \in 1..Len(log) :
    IsAnswer(log[i].result) =>
      (HasWarning(log[i].result) <=> i = warnThreshold(cfg.maxLlmCalls))

\* C5: a returned batch has one result per input, and result[i] is the
\* outcome of the singleLlmQuery call made for input[i].
C5_IndexAlignment ==
  Returned =>
    LET c == lastReturn.call IN
    /\ Len(c.results) = Len(c.items)
    /\ \A i \in 1..Len(c.items) :
         /\ \E j \in 1..Len(log) :
              /\ log[j].q = c.items[i].query /\ log[j].sess = c.sess
              /\ c.results[i] = IF log[j].result = Thrown THEN ErrorTag \o ChatFailedMsg
                                ELSE log[j].result
         /\ IsAnswer(c.results[i]) => c.results[i][1].q = c.items[i].query

\* a batch of 3 returned whose calls all reached the model and completed in
\* another order than they were dispatched in
C5_Witness ==
  /\ Returned /\ Len(lastReturn.call.items) = 3
  /\ \A i \in 1..3 : IsAnswer(lastReturn.call.results[i])
  /\ lastReturn.call.completed[1] # 1

\* C6: in a returned batch exactly the items whose model call failed hold the
\* error-tagged failure; every other item was dispatched and holds its own
\* answer or the budget marker; the batch itself never rejects.
C6_FailureIsolated ==
  Returned =>
    LET c == lastReturn.call IN
    /\ lastReturn.err = EmptyStr
    /\ Range(c.dispatched) = 1..Len(c.items)
    /\ \A i \in 1..Len(c.items) :
         IF i \in c.failed THEN c.results[i] = ErrorTag \o ChatFailedMsg
         ELSE \/ c.results[i] = ExhaustedStr
              \/ IsAnswer(c.results[i]) /\ c.results[i][1].q = c.items[i].query

\* a batch returned in which one item failed and its siblings did not
C6_Witness ==
  /\ Returned /\ Len(lastReturn.call.items) = 3
  /\ lastReturn.call.failed = {2}
  /\ IsAnswer(lastReturn.call.results[1]) /\ IsAnswer(lastReturn.call.results[3])

\* C7: a batch of n items under concurrency C has at most min(C, n) calls in
\* flight, dispatches no index twice, and returns only when every index was
\* dispatched once and every slot holds a result.
C7_BoundedPool ==
  /\ \A c \in Batches :
       /\ Cardinality(InFlight(c)) <= cfg.maxBatchedLlmQueryConcurrency
       /\ Cardinality(InFlight(c)) <= Len(c.items)
       /\ Cardinality(Range(c.dispatched)) = Len(c.dispatched)
       /\ Range(c.dispatched) \subseteq 1..Len(c.items)
  /\ Returned =>
       LET c == lastReturn.call IN
       /\ Range(c.dispatched) = 1..Len(c.items)
       /\ InFlight(c) = {}
       /\ \A i \in 1..Len(c.items) : c.results[i] # Hole

\* a batch larger than the pool with the whole pool in flight
C7_Witness ==
  \E c \in calls :
    /\ c.batch /\ Len(c.items) > cfg.maxBatchedLlmQueryConcurrency
    /\ Cardinality(InFlight(c)) = cfg.maxBatchedLlmQueryConcurrency
    /\ cfg.maxBatchedLlmQueryConcurrency > 1

\* C8 (as claimed): a read of x that completes in the session in which x was
\* last bound (by "var x = v" or "x = v", on either path) yields v.
C8_BoundVariableReadable ==
  ( /\ codeTrajectory # <<>> /\ Last(codeTrajectory).code.op = "read"
    /\ bound.val # 0 /\ bound.sess = session
    /\ ~StartsWith(Last(codeTrajectory).output, RESTART_MSG) )
  => Last(codeTrajectory).output = formatValue(NumV(bound.val))

\* no execute message has been handled by the worker of session s yet
Untouched(s) ==
  \/ sess[s].execId = 0
  \/ sess[s].execId = 1 /\ \E i \in 1..Len(toWorker[s]) : toWorker[s][i].type = "execute"

\* C9: a session starts without x, whatever was bound before it was created;
\* so a read retried after a restart never yields a value, and the output of
\* the code step that created a session starts with the reset marker.
C9_RestartLosesStateAndIsMarked ==
  /\ \A s \in 1..Len(sess) :
       wk[s].alive /\ Untouched(s) =>
         /\ wk[s].globals.x = Undef
         /\ wk[s].globals.context \in {Undef, DocV}
         /\ wk[s].globals.llmQuery \in {Undef, FnStub}
  /\ \A i \in 1..Len(codeTrajectory) :
       LET e == codeTrajectory[i] IN
       e.code.op = "read" /\ StartsWith(e.output, RESTART_MSG) =>
         e.output \in {RESTART_MSG \o NL \o ReferenceError,
                       RESTART_MSG \o NL \o ErrorPrefix \o TimedOutMsg}
  /\ attempts.created >= 1 /\ pc # "retrying" =>
       /\ codeTrajectory # <<>>
       /\ StartsWith(Last(codeTrajectory).output, RESTART_MSG)

\* x was bound in a session that was then discarded, and the read retried on
\* the replacement found it undefined
C9_Witness ==
  /\ bound.val # 0 /\ bound.sess < session
  /\ codeTrajectory # <<>> /\ Last(codeTrajectory).code.op = "read"
  /\ Last(codeTrajectory).output = RESTART_MSG \o NL \o ReferenceError

C10_Inv ==
  /\ attempts.executes <= 2 /\ attempts.created <= 1
  /\ attempts.created = 1 => attempts.executes = 2
  /\ pc = "executing" => attempts = [executes |-> 1, created |-> 0]
  /\ pc = "retrying" =>
       /\ attempts = [executes |-> 2, created |-> 1]
       /\ session = Len(sess) /\ sess[session - 1].closed
       /\ sess[session] = [closed |-> FALSE, execId |-> 1, pending |-> {1}]
       /\ \A i \in 1..Len(toWorker[session]) :
            toWorker[session][i].type = "execute" => toWorker[session][i].code = code
  /\ attempts.executes = 2 /\ pc # "retrying" =>
       /\ codeTrajectory # <<>> /\ Last(codeTrajectory).code = code
       /\ StartsWith(Last(codeTrajectory).output, RESTART_MSG)

\* C10: a code step makes at most two execute() attempts and creates at most
\* one session; the timeout of its first attempt creates exactly one session
\* and submits the same code to it once; the timeout of the retry creates
\* none; the output of a retried step starts with the reset marker.
C10_OneRestartOneRetry ==
  /\ []C10_Inv
  /\ [][ /\ (pc = "executing" /\ sess'[session].closed /\ pc' # "failed") =>
              /\ Len(sess') = Len(sess) + 1 /\ attempts'.executes = 2
              /\ pc' = "retrying" /\ code' = code
         /\ (pc = "retrying" /\ sess'[session].closed) =>
              /\ Len(sess') = Len(sess) /\ attempts' = attempts
              /\ pc' \in {"requesting", "fallback"} ]_vars

\* a step whose first attempt timed out ended with the retried output, cut to
\* maxRuntimeChars, behind the marker
C10_Witness ==
  /\ attempts = [executes |-> 2, created |-> 1] /\ pc = "requesting"
  /\ Last(codeTrajectory).code.op = "dump"
  /\ StartsWith(Last(codeTrajectory).output, RESTART_MSG)
  /\ Last(Last(codeTrajectory).output).tok = "truncated"

\* the output of a code step whose retry timed out too
PersistentTimeoutOutput ==
  truncate(RESTART_MSG \o NL \o ErrorPrefix \o TimedOutMsg, cfg.maxRuntimeChars)

\* C11: when the retried execute() times out, the step ends with the error
\* string as its output (in the trajectory and in the tool message), nothing
\* is returned or thrown, no session is created and no execute() is called
\* for that code again, and the engine goes on to its next model request (the
\* fallback's, past the step ceiling).
C11_SecondTimeoutIsAString ==
  [][ (pc = "retrying" /\ ~sess[session].closed /\ sess'[session].closed) =>
        /\ pc' \in {"requesting", "fallback"} /\ ret' = ret /\ step' = step + 1
        /\ pc' = "requesting" <=> step + 1 < cfg.maxSteps
        /\ codeTrajectory' = Append(codeTrajectory, [code |-> code, output |-> PersistentTimeoutOutput])
        /\ Last(messages') = Turn("tool", CodeExecuted \o PersistentTimeoutOutput)
        /\ Len(sess') = Len(sess) /\ attempts' = attempts /\ attempts.executes = 2
        /\ session' = session /\ sess'[session].pending = {}
        /\ \A s \in 1..Len(sess) : toWorker'[s] = <<>> \/ ~wk'[s].alive ]_vars

\* both attempts of the first code step timed out and the model is asked again
C11_Witness ==
  /\ pc = "requesting" /\ step = 1 /\ Len(sess) = 2 /\ sess[1].closed /\ sess[2].closed
  /\ Len(codeTrajectory) = 1 /\ codeTrajectory[1].output = PersistentTimeoutOutput
  /\ ret = EmptyStr

\* a discarded session: no worker, no pending execution, nothing posted to it
Discarded(s) ==
  /\ sess[s].closed /\ ~wk[s].alive /\ sess[s].pending = {}
  /\ toWorker[s] = <<>> /\ toHost[s] = <<>>

C12_Inv ==
  /\ \A s \in 1..Len(sess) : sess[s].closed => Discarded(s)
  /\ lastReturn.returned /\ ~lastReturn.posted => sess[lastReturn.call.sess].closed

\* C12: the timer of a pending execute() rejects it with the timeout error
\* (the engine restarts after the first, reports "Execution timed out" after
\* the second) and discards the session: worker terminated, pending table
\* empty.  (A session closed with its execution still pending and the
\* invocation not failed was closed by the timer.)  A discarded session stays discarded: an execute() called on it is
\* rejected without reaching the worker (the engine restarts instead), and a
\* capability call that settles on the host afterwards posts nothing to it.
C12_TimeoutDiscardsSession ==
  /\ []C12_Inv
  /\ [][ /\ \A s \in 1..Len(sess) :
              /\ sess[s].closed => sess'[s] = sess[s] /\ wk'[s] = wk[s] /\ toWorker'[s] = <<>>
              /\ (~sess[s].closed /\ sess'[s].closed /\ sess[s].pending # {} /\ pc' # "failed") =>
                    /\ s = session /\ ~wk'[s].alive /\ sess'[s].pending = {}
                    /\ pc = "executing" => pc' = "retrying" /\ Len(sess') = Len(sess) + 1
                    /\ pc = "retrying" => Last(codeTrajectory').output = PersistentTimeoutOutput
         /\ ( /\ pc = "requesting" /\ sess[session].closed
               /\ (Len(codeTrajectory') > Len(codeTrajectory) \/ pc' = "retrying") ) =>
              /\ Len(sess') = Len(sess) + 1 /\ session' = Len(sess')
              /\ attempts' = [executes |-> 2, created |-> 1] ]_vars

\* both sessions of the first code step were discarded on their timers, the
\* next step's execute() on the discarded session was rejected and a third
\* session created, and the llmQuery call of a discarded session then settled
\* on the host with both answers and posted nothing
C12_Witness ==
  /\ Len(sess) = 3 /\ sess[1].closed /\ sess[2].closed /\ step = 1
  /\ lastReturn.returned /\ ~lastReturn.posted /\ lastReturn.call.sess \in {1, 2}
  /\ \A i \in 1..2 : IsAnswer(lastReturn.call.results[i])

\* the fragment reassigns a preloaded value or a capability name, or carries
\* the strict directive
Reassigns(c) == c.op = "assign"
Forbidden(c) == Reassigns(c) \/ c.op = "strict"
Rejection(c) == IF c.op = "strict" THEN StrictMsg ELSE ReservedMsg(c.name)

\* C13 (as claimed): no fragment that reassigns a reserved name or carries
\* the strict directive is posted to a worker; its step's output is the
\* rejection string (behind the reset marker when the step had to replace a
\* discarded session first); every worker's preloaded document and capability
\* stub stay as init left them.
C13_ReservedNeverExecutes ==
  /\ \A s \in 1..Len(sess) :
       /\ \A i \in 1..Len(toWorker[s]) :
            toWorker[s][i].type = "execute" => ~Forbidden(toWorker[s][i].code)
       /\ wk[s].alive => /\ wk[s].globals.context \in {Undef, DocV}
                          /\ wk[s].globals.llmQuery \in {Undef, FnStub}
  /\ \A i \in 1..Len(codeTrajectory) :
       Forbidden(codeTrajectory[i].code) =>
         codeTrajectory[i].output \in {Rejection(codeTrajectory[i].code),
                                        RESTART_MSG \o NL \o Rejection(codeTrajectory[i].code)}

\* the reply carries the completion signal
Ready(r) == r.kind \in {"ready", "readycode"}
\* the reply carries neither the completion signal nor code
Malformed(r) == r.kind \in {"none", "other", "nocode"}

C14_Inv ==
  /\ Len(replies) <= cfg.maxSteps /\ Len(codeTrajectory) <= cfg.maxSteps
  /\ step <= cfg.maxSteps
  /\ pc = "requesting" => step < cfg.maxSteps /\ Len(replies) = step
  /\ pc \in {"executing", "retrying"} => step < cfg.maxSteps /\ Len(replies) = step + 1
  /\ pc = "fallback" =>
       /\ step = cfg.maxSteps /\ Len(replies) = cfg.maxSteps
       /\ \A i \in 1..Len(replies) : ~Ready(replies[i])
  /\ Len(codeTrajectory) <= Cardinality({i \in 1..Len(replies) : replies[i].kind = "code"})

\* C14: at most maxSteps main-loop replies are taken and at most maxSteps
\* code steps are run; every reply, a malformed one too, advances the step
\* counter by one when its turn ends; the turn that ends with the counter at
\* maxSteps goes to the fallback extraction.
C14_StepCeiling ==
  /\ []C14_Inv
  /\ [][ /\ step' \in {step, step + 1}
         /\ (Len(replies') = Len(replies) + 1 /\ Malformed(Last(replies'))) => step' = step + 1
         /\ (step' = step + 1 /\ step' = cfg.maxSteps) => pc' = "fallback"
         /\ (step' = step + 1 /\ step' < cfg.maxSteps) => pc' = "requesting" ]_vars

\* a reply without a tool call and a code step used the two steps up
C14_Witness ==
  /\ pc = "fallback" /\ Len(replies) = cfg.maxSteps
  /\ replies[1].kind = "none" /\ Last(replies).kind = "code"
  /\ Len(codeTrajectory) = 1

\* the { code, output } pairs a trajectory text shows, read back from it: a
\* block runs from its "Step i" heading to the separator before the next
StepStarts(text) == {k \in 1..Len(text) : text[k].tok = "Step"}
ReadTrajectory(text) ==
  LET S == StepStarts(text)
      at(j) == CHOOSE p \in S : Cardinality({x \in S : x < p}) = j - 1
      end(j) == IF j = Cardinality(S) THEN Len(text) ELSE at(j + 1) - 2
  IN [j \in 1..Cardinality(S) |->
        [no |-> text[at(j)].i, code |-> text[at(j) + 1].code,
         output |-> SubSeq(text, at(j) + 3, end(j))]]

C15_Inv ==
  /\ extraction.calls <= 1
  /\ pc = "fallback" => extraction.calls = 1
  /\ extraction.calls = 1 =>
       /\ step = cfg.maxSteps /\ Len(replies) = cfg.maxSteps
       /\ \A i \in 1..Len(replies) : ~Ready(replies[i])
       /\ ReadTrajectory(extraction.text) =
            [i \in 1..Len(codeTrajectory) |->
               [no |-> i, code |-> codeTrajectory[i].code, output |-> codeTrajectory[i].output]]

\* C15: the fallback extractor's client.chat is called at most once in an
\* invocation, and only with the step counter at maxSteps and no reply having
\* carried the completion signal; whatever that call does, the invocation
\* then ends (no second call); the trajectory text it was sent shows every
\* { code, output } pair of the invocation, numbered in order.
C15_FallbackOnceWithFullTrajectory ==
  /\ []C15_Inv
  /\ [][ /\ extraction.calls = 1 => extraction' = extraction
         /\ (pc = "fallback" /\ pc' # "fallback") =>
              /\ pc' \in {"done", "failed"}
              /\ pc' = "failed" => ret' = MaxStepsError ]_vars

\* two code steps, one of them retried after a timeout, then the extractor
\* was called once and failed
C15_Witness ==
  /\ pc = "failed" /\ ret = MaxStepsError /\ extraction.calls = 1
  /\ Len(codeTrajectory) = 2 /\ Len(ReadTrajectory(extraction.text)) = 2
  /\ \E i \in 1..2 : StartsWith(codeTrajectory[i].output, RESTART_MSG)

\* C16 (as claimed): once the extractor has been called, the invocation ends
\* either returning the extractor's domain fields, which are not empty, or
\* throwing the max-steps error.
C16_FieldsOrMaxStepsError ==
  extraction.calls = 1 =>
    /\ pc = "done" => ret # <<>> /\ ret = FallbackFields
    /\ pc = "failed" => ret = MaxStepsError

\* C17: the turn of a reply that carries the completion signal, with or
\* without code, ends the invocation: it returns the reply's one domain field
\* and neither helper field, calls execute() not at all (nothing is posted to
\* a worker, no trajectory entry, no session created), and closes the
\* session; after that no reply is ever taken and the result stands.
C17_CompletionSignalEndsInvocation ==
  /\ [](pc = "done" /\ extraction.calls = 0 => Ready(Last(replies)) /\ sess[session].closed)
  /\ [][ /\ (Len(replies') = Len(replies) + 1 /\ Ready(Last(replies'))) =>
              /\ pc' = "done"
              /\ ret' = <<[tok |-> "summary", len |-> 0, val |-> "partial"]>>
              /\ codeTrajectory' = codeTrajectory /\ attempts' = attempts /\ code' = code
              /\ messages' = messages /\ step' = step
              /\ Len(sess') = Len(sess) /\ session' = session
              /\ sess'[session] = [sess[session] EXCEPT !.closed = TRUE]
              /\ toWorker'[session] = <<>> /\ ~wk'[session].alive
         /\ pc = "done" => /\ pc' = "done" /\ ret' = ret /\ replies' = replies
                            /\ extraction' = extraction /\ sess' = sess
                            /\ codeTrajectory' = codeTrajectory ]_vars

\* after one code step the model signalled completion in a reply that also
\* carried code
C17_Witness ==
  /\ pc = "done" /\ Len(replies) = 2 /\ replies[2].kind = "readycode"
  /\ replies[2].code \in DumpCodes /\ Len(codeTrajectory) = 1
  /\ ret = <<[tok |-> "summary", len |-> 0, val |-> "partial"]>>

\* C18 (as claimed): the turn of a reply with neither the completion signal
\* nor code ends with the corrective instruction as the last message of the
\* conversation, the step counter one higher, nothing executed and the
\* trajectory as it was.
C18_MalformedReplyIsCorrected ==
  [][ (Len(replies') = Len(replies) + 1 /\ Malformed(Last(replies'))) =>
        /\ Last(messages') = Turn("user", Nudge)
        /\ step' = step + 1 /\ pc' \in {"requesting", "fallback"}
        /\ codeTrajectory' = codeTrajectory /\ attempts' = attempts
        /\ sess' = sess /\ toWorker' = toWorker ]_vars

\* the replies that carried code to run, in turn order
RECURSIVE CodeReplies(_)
CodeReplies(rs) ==
  IF rs = <<>> THEN <<>>
  ELSE (IF Head(rs).kind = "code" THEN <<Head(rs)>> ELSE <<>>) \o CodeReplies(Tail(rs))

\* of those, the ones whose turn is over
CompletedCodeTurns ==
  LET cr == CodeReplies(replies) IN
  IF pc \in {"executing", "retrying"} THEN SubSeq(cr, 1, Len(cr) - 1) ELSE cr

\* C19: the trajectory has one entry per completed code-bearing turn, in turn
\* order and with that turn's code, however often execute() was called for
\* it and whether or not the code was rejected; a step of the program leaves
\* the trajectory alone or appends one entry to it.
C19_TrajectoryIsAppendOnly ==
  /\ [](/\ Len(codeTrajectory) = Len(CompletedCodeTurns)
        /\ \A i \in 1..Len(codeTrajectory) : codeTrajectory[i].code = CompletedCodeTurns[i].code)
  /\ [][ \/ codeTrajectory' = codeTrajectory
         \/ /\ Len(codeTrajectory') = Len(codeTrajectory) + 1
            /\ SubSeq(codeTrajectory', 1, Len(codeTrajectory)) = codeTrajectory ]_vars

\* a rejected assignment and a look at the document that was retried after a
\* timeout: two entries
C19_Witness ==
  /\ Len(codeTrajectory) = 2 /\ Len(replies) = 2
  /\ \E i, j \in 1..2 :
       /\ codeTrajectory[i].output = ReservedMsg("context")
       /\ StartsWith(codeTrajectory[j].output, RESTART_MSG)
       /\ codeTrajectory[j].code \in DumpCodes

\* C20: the observer has been handed exactly one record per answer the model
\* gave in the main loop, whatever the answer's shape, and the records carry
\* stepIndex 0, 1, 2, ... in the order of the turns.
C20_OneStepRecordPerTurn ==
  /\ Len(stepRecords) = Len(replies)
  /\ \A i \in 1..Len(stepRecords) : stepRecords[i].stepIndex = i - 1

\* a turn without a tool call followed by a turn with code: two records
C20_Witness ==
  /\ Len(replies) = 2 /\ Len(stepRecords) = 2
  /\ replies[1].kind = "none" /\ replies[2].kind = "code"
  /\ stepRecords[2].stepIndex = 1

\* C21: when forward() has thrown the max-steps error, the signal built from
\* it reports as stepsCompleted the number of step records and as maxSteps
\* the ceiling the main loop ran under, and the two are equal.
C21_SignalMatchesEnforcedCeiling ==
  (pc = "failed" /\ ret = MaxStepsError) =>
    LET sig == classifyWorkerError(ret, stepRecords, env) IN
    /\ sig.stepsCompleted = Len(stepRecords)
    /\ sig.maxSteps = cfg.maxSteps
    /\ sig.stepsCompleted = sig.maxSteps

C23_CodeErrorsBecomeOutput ==
  [][ (pc \in {"executing", "retrying"} /\ pc' \notin {"executing", "retrying"}) =>
        /\ pc' \in {"requesting", "fallback"}
        /\ Len(codeTrajectory') = Len(codeTrajectory) + 1
        /\ Last(messages') = Turn("tool", CodeExecuted \o Last(codeTrajectory').output) ]_vars

\* C27: the output of a fragment that returned the empty string differs from
\* the output of a fragment that produced nothing.
C27_EmptyStringIsNotNoOutput ==
  \A i, j \in 1..Len(codeTrajectory) :
    (codeTrajectory[i].code \in EmptyCodes /\ codeTrajectory[j].code \in SilentCodes)
      => codeTrajectory[i].output # codeTrajectory[j].output

\* C28: the context that a sub-query puts into its message to the model is
\* never longer than cfg.maxRuntimeChars.
C28_ContextWithinCeiling ==
  \A i \in 1..Len(log) : StrLen(log[i].ctx) <= cfg.maxRuntimeChars

\* a step in which the worker of session s handles the message m
WorkerHandles(s, m) ==
  /\ wk[s].alive /\ wk'[s].alive /\ toWorker[s] # <<>>
  /\ m = Head(toWorker[s]) /\ toWorker'[s] = Tail(toWorker[s])

\* a step in which the host handles the message m of session s
HostHandles(s, m) ==
  /\ ~sess'[s].closed /\ toHost[s] # <<>>
  /\ m = Head(toHost[s]) /\ toHost'[s] = Tail(toHost[s])

Awaits(r, id) == \E j \in 1..Len(r.fids) : r.fids[j] = id
PosOf(r, id) == CHOOSE j \in 1..Len(r.fids) : r.fids[j] = id
Strings(vals) == ArrV([i \in 1..Len(vals) |-> vals[i].str])

\* C22: (a) when llmQuery rejects, the host posts an error response with the
\* id of the request to the session it came from; (b) a request that names
\* an unregistered capability gets an error response with its id; (c) when
\* the worker handles an error response for a pending call, that call alone
\* leaves the pending table, every execution that did not make the call is
\* left as it is, and the execution that made it either records what its
\* catch handler returned or, without a handler, ends with the error.
C22_CapabilityFailureReachesCode ==
  [][ \A s \in 1..Len(sess) :
      /\ ( /\ lastReturn' # lastReturn /\ lastReturn'.call.sess = s
           /\ lastReturn'.err # EmptyStr /\ lastReturn'.posted )
         => toWorker'[s] = Append(toWorker[s], FnResultErr(lastReturn'.call.id, lastReturn'.err))
      /\ \A m \in {Head(toHost[s]) : x \in {1} \cap DOMAIN toHost[s]} :
           (HostHandles(s, m) /\ m.type = "fn-call" /\ m.name \notin fnProxies)
             => toWorker'[s] = Append(toWorker[s], FnResultErr(m.id, NotFoundMsg(m.name)))
      /\ \A m \in {Head(toWorker[s]) : x \in {1} \cap DOMAIN toWorker[s]} :
           (WorkerHandles(s, m) /\ m.type = "fn-result" /\ ~m.ok /\ m.id \in wk[s].fnPending)
             => /\ wk'[s].fnPending = wk[s].fnPending \ {m.id}
                /\ \A r \in wk[s].running :
                     IF ~Awaits(r, m.id) THEN r \in wk'[s].running
                     ELSE IF r.code.decl = "catch"
                     THEN LET vals == [r.vals EXCEPT ![PosOf(r, m.id)] = StrV(CaughtStr(m.error))]
                          IN \/ [r EXCEPT !.vals = vals] \in wk'[s].running
                             \/ toHost'[s] = Append(toHost[s], ResultMsg(r.exec, Strings(vals)))
                     ELSE toHost'[s] = Append(toHost[s], ResultErr(r.exec, m.error)) ]_vars

\* a turn that asked for an unregistered capability, then a turn whose two
\* calls were answered with a failure, which it caught, and an answer
C22_Witness ==
  /\ Len(codeTrajectory) = 2 /\ codeTrajectory[1].code \in RawCodes
  /\ LET e == codeTrajectory[2] IN
       /\ e.code \in ParCodes /\ e.code.decl = "catch" /\ e.output[1].tok = "json"
       /\ \E a, b \in 1..2 : /\ e.output[1].val.arr[a] = CaughtStr(ChatFailedMsg)
                              /\ IsAnswer(e.output[1].val.arr[b])

\* C25: (a) when the worker handles a call-response whose id is pending,
\* that id alone leaves the pending table, the call that carries the id
\* takes the response's value, and no other call of any execution changes;
\* a response whose id is not pending changes nothing and posts nothing;
\* (b) the ids of new calls are the next unused numbers, so no id is used
\* twice and a settled id is never pending again; (c) in the result of
\* "Promise.all([llmQuery(1), llmQuery(2)])" the i-th element answers
\* query i, in whatever order the responses came.
C25_ResponsesSettleById ==
  /\ [][ \A s \in 1..Len(sess) :
         /\ \A m \in {Head(toWorker[s]) : x \in {1} \cap DOMAIN toWorker[s]} :
              (WorkerHandles(s, m) /\ m.type = "fn-result") =>
                IF m.id \notin wk[s].fnPending
                THEN wk'[s] = wk[s] /\ toHost'[s] = toHost[s]
                ELSE /\ wk'[s].fnPending = wk[s].fnPending \ {m.id}
                     /\ \A r \in wk[s].running :
                          IF ~Awaits(r, m.id) THEN r \in wk'[s].running
                          ELSE \/ /\ m.ok
                                  /\ [r EXCEPT !.vals[PosOf(r, m.id)] = m.value] \in wk'[s].running
                               \/ /\ ~m.ok /\ r.code.decl = "catch"
                                  /\ [r EXCEPT !.vals[PosOf(r, m.id)] = StrV(CaughtStr(m.error))]
                                       \in wk'[s].running
                               \/ /\ \A r2 \in wk'[s].running : r2.exec # r.exec
                                  /\ Len(toHost'[s]) = Len(toHost[s]) + 1
                                  /\ Last(toHost'[s]).type = "result"
                                  /\ Last(toHost'[s]).id = r.exec
         /\ wk'[s].alive =>
              wk'[s].fnPending \ wk[s].fnPending = (wk[s].fnCallId + 1)..wk'[s].fnCallId ]_vars
  /\ [](\A s \in 1..Len(sess) : wk[s].fnPending \subseteq 1..wk[s].fnCallId)
  /\ [](\A i \in 1..Len(codeTrajectory) :
          LET e == codeTrajectory[i] IN
          (e.code \in ParCodes /\ e.output[1].tok = "json") =>
            \A j \in 1..Len(e.output[1].val.arr) :
              IsAnswer(e.output[1].val.arr[j]) => e.output[1].val.arr[j][1].q = j)

\* the second of two calls in flight has been answered, the first has not
C25_Witness ==
  \E s \in 1..Len(sess) : \E r \in wk[s].running :
    /\ Len(r.vals) = 2 /\ r.vals[1] = Unset /\ r.vals[2] # Unset
    /\ wk[s].fnPending = {r.fids[1]}

PromisesOf(s) == {i \in 1..Len(promises) : promises[i].sess = s}

\* C24: (a) in the step that closes a session, every execute() promise of
\* the session that was pending is rejected ("Worker terminated"; "Execution
\* timed out" for the one whose timer closed the session) and the settled
\* ones are left alone; (b) a closed session has an empty pending table, a
\* terminated worker and no pending promise; (c) in a closed session nothing
\* changes any more, whether close() is called again or execute() is: a new
\* execute() is rejected with "Session is closed", takes no id and posts
\* nothing.
C24_CloseRejectsPending ==
  /\ [](\A s \in 1..Len(sess) :
          sess[s].closed =>
            /\ sess[s].pending = {} /\ ~wk[s].alive /\ toWorker[s] = <<>>
            /\ \A i \in PromisesOf(s) : promises[i].status # "pending")
  /\ [][ \A s \in 1..Len(sess) :
         /\ (~sess[s].closed /\ sess'[s].closed) =>
              /\ \A i \in PromisesOf(s) :
                   IF promises[i].status = "pending"
                   THEN /\ promises'[i].status = "rejected"
                        /\ promises'[i].str \in {TerminatedMsg, TimedOutMsg}
                   ELSE promises'[i] = promises[i]
              /\ Cardinality({i \in PromisesOf(s) : /\ promises[i].status = "pending"
                                                    /\ promises'[i].str = TimedOutMsg}) <= 1
         /\ sess[s].closed =>
              /\ sess'[s] = sess[s] /\ wk'[s] = wk[s]
              /\ toWorker'[s] = toWorker[s] /\ toHost'[s] = toHost[s]
              /\ SubSeq(promises', 1, Len(promises)) = promises
              /\ \A i \in (Len(promises) + 1)..Len(promises') :
                   promises'[i].sess = s =>
                     /\ promises'[i].status = "rejected" /\ promises'[i].str = ClosedMsg
                     /\ promises'[i].id = 0 ]_vars

\* close() found two executes pending, and an execute() was made after it
C24_Witness ==
  /\ Len(promises) = 3 /\ sess[1].closed
  /\ promises[1].str = TerminatedMsg /\ promises[2].str = TerminatedMsg
  /\ promises[3].str = ClosedMsg /\ promises[3].status = "rejected"

\* what execute() resolves with for a fragment that runs with no other
\* execution around it: the document for "context", the printed line for
\* the fragment that awaits llmQuery(q) and then calls console.log(v)
OwnOutput(c) == IF c.op = "dump" THEN DocV.str ELSE LogLine(c.val)

\* C26: whatever other executions of the session are suspended, started or
\* finished in the meantime, every execute() promise that resolves does so
\* with the value and the captured output of its own fragment.
C26_ExecutesResolveWithOwnOutput ==
  \A i \in 1..Len(promises) :
    promises[i].status = "resolved" => promises[i].str = OwnOutput(promises[i].code)

\* the state of the first and of the second invocation
Invocation(i) == IF focus = i THEN World ELSE peer

\* C29: (a) a step of one invocation leaves the other invocation's counter,
\* trajectory, sessions, workers, pending tables, conversation and result as
\* they were, and handing the event loop from one to the other changes
\* neither; (b) each invocation's counter is the number of sub-queries made
\* through its own sessions, at most its ceiling of them reached the model,
\* and its trajectory holds the code of its own turns.
C29_InvocationsDoNotInterfere ==
  /\ [][ /\ focus' = focus => peer' = peer
         /\ focus' # focus => (peer' = World /\ World' = peer) ]_vars
  /\ [](\A i \in 1..2 :
          LET w == Invocation(i) IN
          /\ w.llmCallCount = Len(w.log)
          /\ w.real = Cardinality({j \in 1..Len(w.log) : w.log[j].real})
          /\ w.real <= cfg.maxLlmCalls
          /\ \A j \in 1..Len(w.log) : w.log[j].sess \in 1..Len(w.sess)
          /\ Len(w.stepRecords) = Len(w.replies)
          /\ Len(w.codeTrajectory) <= Len(CodeReplies(w.replies))
          /\ \A j \in 1..Len(w.codeTrajectory) :
               w.codeTrajectory[j].code = CodeReplies(w.replies)[j].code)

\* the first invocation has restarted its session and made two sub-queries,
\* the second has made one and has not restarted
C29_Witness ==
  /\ peer # NoPeer
  /\ Invocation(1).llmCallCount = 2 /\ Len(Invocation(1).sess) = 2
  /\ Invocation(2).llmCallCount = 1 /\ Len(Invocation(2).sess) = 1
  /\ Len(Invocation(1).codeTrajectory) = 1 /\ Len(Invocation(2).codeTrajectory) = 1

\* C31: runRalphLoop calls worker.forward at most maxIters times; the traces
\* hold one entry per iteration run, numbered 1, 2, ... in order; an entry
\* passed exactly when its hard validation was ok and the judge said yes with
\* no issues, and no iteration is run after it; ok = true is returned with
\* the output of the one passing iteration, which is the last one run;
\* ok = false is returned only with maxIters iterations run and none passed.
Passes(trace) == trace.hard.ok /\ trace.judge.ok = "yes" /\ trace.judge.issues = <<>>

C31_IterationsBoundedAndTraced ==
  loop.pc # "none" =>
    /\ loop.forwards <= loop.maxIters
    /\ loop.pc \in {"generating", "judging"} => Len(loop.traces) = loop.forwards - 1
    /\ loop.pc \in {"writing", "returned"} => Len(loop.traces) = loop.forwards
    /\ \A i \in 1..Len(loop.traces) :
         /\ loop.traces[i].iter = i
         /\ loop.traces[i].passed <=> Passes(loop.traces[i])
         /\ loop.traces[i].passed => i = Len(loop.traces) /\ i = loop.forwards
    /\ (loop.pc = "returned" /\ loop.ok) =>
         /\ Last(loop.traces).passed
         /\ loop.output = Last(loop.traces).generated
    /\ (loop.pc = "returned" /\ ~loop.ok) =>
         /\ loop.forwards = loop.maxIters /\ Len(loop.traces) = loop.maxIters
         /\ \A i \in 1..Len(loop.traces) : ~loop.traces[i].passed

\* the loop returned ok = true at its second iteration
C31_Witness ==
  /\ loop.pc = "returned" /\ loop.ok /\ Len(loop.traces) = 2
  /\ ~loop.traces[1].passed /\ loop.output = GoodOut

\* C32: when the invocation an iteration awaits throws the max-steps error,
\* the loop does not throw: it pushes a trace that did not pass and carries
\* the classified error, with neither hardValidate's verdict nor a judge's,
\* and the constraints stay as they were up to the next worker.forward; when
\* the invocation throws anything else, the loop throws it, with no trace
\* pushed.
C32_BudgetFailureDoesNotAbort ==
  [][/\ (loop.pc = "generating" /\ pc # "failed" /\ pc' = "failed") =>
          IF ret' = MaxStepsError
          THEN /\ loop'.pc = "writing"
               /\ loop'.traces = Append(loop.traces, Last(loop'.traces))
               /\ Last(loop'.traces).iter = loop.iter
               /\ ~Last(loop'.traces).passed
               /\ Last(loop'.traces).workerError = classifyWorkerError(ret', stepRecords', env)
               /\ Last(loop'.traces).workerError.tag = "max-steps-reached"
               /\ Last(loop'.traces).hard = [ok |-> FALSE, issues |-> BudgetIssue]
               /\ Last(loop'.traces).judge = NoJudge
               /\ loop'.constraints = loop.constraints
          ELSE /\ loop'.pc = "threw" /\ loop'.err = ret'
               /\ loop'.traces = loop.traces
     /\ (loop.pc = "writing" /\ loop.workerError # Null /\ loop'.pc # "threw") =>
          /\ loop'.constraints = loop.constraints
          /\ loop'.traces = loop.traces
          /\ loop.iter < loop.maxIters =>
               /\ loop'.pc = "generating" /\ loop'.iter = loop.iter + 1
               /\ pc' = "requesting" /\ stepRecords' = <<>>
    ]_vars

\* the second iteration is under way after the first ran out of steps
C32_Witness ==
  /\ loop.pc = "generating" /\ loop.iter = 2 /\ pc = "requesting"
  /\ loop.traces[1].workerError # Null
  /\ loop.constraints = baseConstraints

\* the elements of a set of numbers in ascending order
RECURSIVE Ascending(_)
Ascending(S) ==
  IF S = {} THEN <<>>
  ELSE LET least == CHOOSE i \in S : \A j \in S : i <= j
       IN <<least>> \o Ascending(S \ {least})

\* the archived traces of the iterations the index lists for a session, by
\* ascending iteration, without those whose file is missing or is not JSON
Queryable(st, sessionId) ==
  LET listed == {i \in Iters : \E k \in 1..Len(st.index[sessionId]) :
                                 st.index[sessionId][k].iter = i}
      readable == {i \in listed : st.files[sessionId, i].kind = "trace"}
      order == Ascending(readable)
  IN [k \in 1..Len(order) |-> st.files[sessionId, order[k]]]

\* C33: whatever storeIterTrace calls were made, in whatever order and with
\* whatever outcome, the iterations of each session in the index are in
\* strictly ascending order of iter (so none is listed twice) and each entry
\* is the one of the last storeIterTrace for that session and iteration that
\* returned ok; querySessionTraces returns the readable archived traces of
\* the session's entries in ascending order of iter.
C33_IndexSortedAndUpserted ==
  /\ [](\A s \in Sessions :
          LET entries == store.index[s] IN
          /\ \A k \in 1..(Len(entries) - 1) : entries[k].iter < entries[k + 1].iter
          /\ \A k \in 1..Len(entries) :
               /\ entries[k].storedAt = store.latest[s, entries[k].iter]
               /\ entries[k].tracePath = <<s, entries[k].iter>>)
  /\ [][(store'.files = store.files /\ store'.index = store.index /\ store'.stores = store.stores)
          => store'.result = Queryable(store, store'.asked)]_vars

\* iteration 1 was stored again after iteration 2, and a query of the
\* session returned the one trace whose archived file is still readable
C33_Witness ==
  \E s \in Sessions :
    /\ Len(store.index[s]) = 2
    /\ store.index[s][1].storedAt > store.index[s][2].storedAt
    /\ store.asked = s /\ Len(store.result) = 1 /\ store.result[1].iter = 2
    /\ store.files[s, 1].kind # "trace"

\* C34 (as claimed): whatever text trimMemory is given, its result is at most
\* 1500 characters long; and when the text is longer than that, the result
\* is the marker followed by a proper suffix of the text's blocks that ends
\* with the most recent one.
IsSuffix(s, full) ==
  /\ Len(s) <= Len(full)
  /\ s = SubSeq(full, Len(full) - Len(s) + 1, Len(full))

C34_ResultWithinBudget ==
  LET r == trimMemory(mem.combined) IN
  /\ TextLen(r.trimmed) <= MemoryBudget
  /\ TextLen(mem.combined) > MemoryBudget =>
       /\ r.trimmed.lead.kind = "marker" /\ r.trimmed.lead.n = r.blocksDropped
       /\ r.blocksDropped > 0
       /\ IsSuffix(r.trimmed.blocks, splitMemoryBlocks(mem.combined))
       /\ Len(r.trimmed.blocks) = Len(splitMemoryBlocks(mem.combined)) - r.blocksDropped
       /\ Last(r.trimmed.blocks) = Last(mem.combined.blocks)

RECURSIVE SumTokens(_)
SumTokens(steps) ==
  IF steps = <<>> THEN 0 ELSE steps[1].totalTokens + SumTokens(Tail(steps))

\* C35 (as claimed): the signal a trace carries for an invocation that ran
\* out of steps reports as totalTokensUsed the sum of the token totals of
\* the step records of that invocation.
C35_TokensUsedIsTheSum ==
  loop.pc # "none" =>
    \A i \in 1..Len(loop.traces) :
      LET signal == loop.traces[i].workerError IN
      signal # Null => signal.totalTokensUsed = SumTokens(signal.steps)

\* C36: every invocation ends, returning or throwing, after at most
\* maxSteps answered turns of the main loop and at most one call of the
\* fallback extractor; it does not wait for the model or for submitted code
\* forever.
C36_InvocationTerminates ==
  /\ <>(pc \in {"done", "failed"})
  /\ [](Len(replies) <= cfg.maxSteps /\ extraction.calls <= 1)

\* an invocation ended although the model submitted a fragment that never
\* completes in every turn
C36_Witness ==
  /\ pc \in {"done", "failed"} /\ extraction.calls = 1
  /\ Len(replies) = cfg.maxSteps
  /\ \A i \in 1..Len(replies) : replies[i].kind = "code" /\ replies[i].code.op = "hang"

\* C37: again and again every promise execute() has returned is settled, and
\* a settled promise never changes again, so that each one is settled in the
\* end and once; a promise is rejected
\* only with the error of its own result message, with the timeout or the
\* termination error in the step that closes its session, or with the error
\* of the worker's error event; and handling a result message whose id is not
\* pending changes nothing but the message queue.
Settled(i) == Len(promises) >= i /\ promises[i].status # "pending"

C37_ExecuteSettlesOnce ==
  /\ []<>(\A i \in 1..Len(promises) : Settled(i))
  /\ [][\A i \in 1..Len(promises) :
          /\ Settled(i) => promises'[i] = promises[i]
          /\ (~Settled(i) /\ promises'[i].status = "rejected") =>
               LET s == promises[i].sess
                   closes == sess'[s].closed /\ ~sess[s].closed
               IN /\ promises[i].id \notin sess'[s].pending
                  /\ \/ /\ toHost[s] # <<>> /\ Head(toHost[s]).type = "result"
                        /\ Head(toHost[s]).id = promises[i].id /\ ~Head(toHost[s]).ok
                        /\ promises'[i].str = Head(toHost[s]).error
                     \/ promises'[i].str \in {TimedOutMsg, TerminatedMsg} /\ closes
                     \/ promises'[i].str = UncaughtMsg /\ ~closes
          /\ (~Settled(i) /\ promises'[i].status = "resolved") =>
               \E s \in 1..Len(sess) :
                 /\ s = promises[i].sess /\ toHost[s] # <<>>
                 /\ Head(toHost[s]).type = "result" /\ Head(toHost[s]).id = promises[i].id
                 /\ Head(toHost[s]).ok
     ]_vars
  /\ [][\A s \in 1..Len(sess) :
          (/\ toHost[s] # <<>> /\ Head(toHost[s]).type = "result"
           /\ Head(toHost[s]).id \notin sess[s].pending
           /\ toHost'[s] = Tail(toHost[s]) /\ sess'[s].closed = sess[s].closed)
          => (promises' = promises /\ sess' = sess /\ wk' = wk /\ toWorker' = toWorker)
     ]_vars

\* three calls on one session: one rejected by its timer, one by the
\* termination that followed, and one already resolved with its result
C37_Witness ==
  /\ Len(promises) = 3
  /\ \E i, j, k \in 1..3 :
       /\ promises[i].status = "rejected" /\ promises[i].str = TimedOutMsg
       /\ promises[j].status = "rejected" /\ promises[j].str = TerminatedMsg
       /\ promises[k].status = "resolved"

\* C38: at most one session of the invocation is open; a step that creates
\* a session creates one, leaves every earlier session closed and makes the
\* new one current, and it is either the step in which the timer of the
\* current session fires or a step taken with the session closed by its
\* timer before (sessionTimedOut); while the invocation runs the current
\* session is closed exactly when sessionTimedOut is set.
OpenSessions == {s \in 1..Len(sess) : ~sess[s].closed}

CodeStepEnds == Len(codeTrajectory') = Len(codeTrajectory) + 1
NewOutput == codeTrajectory'[Len(codeTrajectory')].output
BareClosed == truncate(ErrorPrefix \o ClosedMsg, cfg.maxRuntimeChars)

PostedFnResult(s) ==
  /\ s <= Len(sess) /\ Len(toWorker'[s]) = Len(toWorker[s]) + 1
  /\ toWorker'[s][Len(toWorker'[s])].type = "fn-result"

C40_OldResultsStayWithOldSession ==
  [][\A s \in 1..Len(sess') :
       /\ PostedFnResult(s) =>
            /\ lastReturn'.returned /\ lastReturn'.posted
            /\ lastReturn'.call.sess = s /\ ~sess[s].closed
            /\ toWorker'[s][Len(toWorker'[s])].id = lastReturn'.call.id
       /\ (s <= Len(sess) /\ sess[s].closed) => toWorker'[s] = toWorker[s]
    ]_vars

\* llmQuery has returned for a call of a discarded session after the
\* restart, while the replacement session awaits a call with the same id
C40_Witness ==
  /\ lastReturn.returned /\ ~lastReturn.posted
  /\ lastReturn.call.sess < session /\ ~sess[session].closed
  /\ lastReturn.call.id \in wk[session].fnPending


====
